---- MODULE Spec2Model ----
(***************************************************************************)
(* Interviewer-AI research pipeline: the company-research,                 *)
(* interviewer-research, persona-generator and post-interview-insight      *)
(* Lambda handlers over three DynamoDB tables (company cache, LinkedIn     *)
(* cache, persona/session table).                                          *)
(*                                                                         *)
(* Conventions.  A Python string whose characters the code inspects (a     *)
(* company URL or name, a LinkedIn URL or handle) is a sequence of         *)
(* one-character strings.  Other texts are TLA+ strings.  A Python value   *)
(* that is stored or serialised (research data, provider output) is named  *)
(* by a TLA+ string; the tables below give its type, its dict items and    *)
(* its JSON text.  A falsy request field (None or "") is the empty         *)
(* sequence or the empty string: both take the same branches everywhere.   *)
(*                                                                         *)
(* An invocation of a handler is a process.  Its steps are its calls, in   *)
(* the order of its code: one action for each call to a table (get_item,   *)
(* put_item, update_item, each atomic at the store), one for each request  *)
(* to a provider (task_run.create, each poll of task_run.result, each      *)
(* profile request, the search, the OpenAI request, s3.get_object), and    *)
(* one for the return.  Between two passes of a polling loop the           *)
(* invocation sleeps, and the others run.  The outcome of a call is an     *)
(* input of its action: the call returns or it raises, and a read returns  *)
(* what the table holds when the call is made.  A provider's behaviour     *)
(* during one invocation is drawn when the invocation first asks it.       *)
(* What an invocation has read it keeps in its locals, so that it goes on  *)
(* with a record that others may have replaced since.  The steps of        *)
(* different invocations interleave freely.  The reading of time.time()    *)
(* that a write carries is an input too: it is taken on the invocation's   *)
(* own host while the arguments of the call are built, before the store    *)
(* applies the write, and the hosts' clocks are not synchronised, so any   *)
(* reading may meet any state of the table.                                *)
(***************************************************************************)
EXTENDS Integers, Sequences, FiniteSets, TLC

VARIABLES cfg, companyTable, linkedinTable, personaTable, procs, hist, fetch

vars == <<cfg, companyTable, linkedinTable, personaTable, procs, hist, fetch>>

tables == <<companyTable, linkedinTable, personaTable>>

---------------------------------------------------------------------------
(* Bounds *)

\* handler invocations in one behaviour; all of them may overlap
NumProcs == 2

\* distinct readings of time.time()
MaxTime == 2

\* longest list event given to the persona generator
MaxListLen == 2

Procs == 1..NumProcs
Times == 1..MaxTime

---------------------------------------------------------------------------
(* Character strings *)

\* str.lower() on one character
LowerChar(c) ==
  LET lower == [A |-> "a", B |-> "b", C |-> "c", D |-> "d", E |-> "e", F |-> "f",
                G |-> "g", H |-> "h", I |-> "i", J |-> "j", K |-> "k", L |-> "l",
                M |-> "m", N |-> "n", O |-> "o", P |-> "p", Q |-> "q", R |-> "r",
                S |-> "s", T |-> "t", U |-> "u", V |-> "v", W |-> "w", X |-> "x",
                Y |-> "y", Z |-> "z"]
  IN  IF c \in DOMAIN lower THEN lower[c] ELSE c

\* str.lower()
StrLower(s) == [i \in 1..Len(s) |-> LowerChar(s[i])]

\* str.replace(old, new) for one-character old and new
StrReplace(s, old, new) == [i \in 1..Len(s) |-> IF s[i] = old THEN new ELSE s[i]]

\* the characters of a string joined into one text
RECURSIVE Join(_)
Join(s) == IF s = <<>> THEN "" ELSE Head(s) \o Join(Tail(s))

\* Python truthiness of a character string (None and "" are both <<>>)
Truthy(s) == s # <<>>

\* str(n) of a natural number: its decimal digits
RECURSIVE StatusText(_)
StatusText(code) ==
  LET digits == <<"0", "1", "2", "3", "4", "5", "6", "7", "8", "9">>
  IN  IF code < 10 THEN digits[code + 1]
      ELSE StatusText(code \div 10) \o digits[(code % 10) + 1]

NamePrefix == <<"n", "a", "m", "e", ":">>

\* f"name:{company_name.lower().replace(' ', '_')}"
FallbackKey(company_name) ==
  NamePrefix \o StrReplace(StrLower(company_name), " ", "_")

---------------------------------------------------------------------------
(* Request values *)

UrlAcme == <<"h", "t", "t", "p", "s", ":", "/", "/", "a", ".", "b">>
\* a company_url that is literally the text "name:a_b"
UrlNameLike == <<"n", "a", "m", "e", ":", "a", "_", "b">>
NameAB == <<"A", " ", "b">>

CompanyUrls == {<<>>, UrlAcme, UrlNameLike}
CompanyNames == {<<>>, NameAB}

\* "" stands for an absent session_id; s1 was created by intake, s2 was not
SessionIds == {"", "s1", "s2"}
IntakeSessions == {"s1"}

---------------------------------------------------------------------------
(* Python values *)

NoneV == "None"
EmptyDict == "{}"
EmptyList == "[]"
CoIndustry == "{industry: SaaS}"
\* a dict holding a number: boto3 stores it as a DynamoDB number and returns
\* it as a Decimal
CoEmployees == "{employees: 50}"
CoText == "Acme builds SaaS"
CoOutputDump == "{content: Acme builds SaaS, type: text}"
CoOutputDict == "{content: {industry: SaaS}, type: json}"

\* the mock company record of lines 69-74
MockCompany(company_name) ==
  "{name: " \o (IF Truthy(company_name) THEN Join(company_name) ELSE "Tech Corp")
    \o ", industry: Software Engineering, culture: Product-led, engineering-first culture."
    \o ", recent_news: Recently announced expansion.}"

\* {"raw_output": x}
RawWrap(x) == "{raw_output: " \o x \o "}"

\* Provider outputs (task_run_result.output)
OutModelDump == "TaskRunTextOutput(content='Acme builds SaaS')"
OutModelDumpRaises == "BrokenModel()"
OutDictMethod == "LegacyModel(content={industry: SaaS})"
OutPlainObject == "object()"
OutJsonDict == "'{\"industry\": \"SaaS\"}'"
OutJsonNumber == "'{\"employees\": 50}'"
OutJsonList == "'[]'"
OutOpaque == "'Acme is a SaaS company'"

RawOutputs ==
  {OutModelDump, OutModelDumpRaises, OutDictMethod, OutPlainObject,
   OutJsonDict, OutJsonNumber, OutJsonList, OutOpaque}

\* isinstance(raw_output, str)
IsStr(v) == v \in {OutJsonDict, OutJsonNumber, OutJsonList, OutOpaque}
\* hasattr(raw_output, 'model_dump')
HasModelDump(v) == v \in {OutModelDump, OutModelDumpRaises}
\* hasattr(raw_output, 'dict')
HasDictMethod(v) == v \in {OutDictMethod}
\* raw_output.model_dump() raises
ModelDumpRaises(v) == v = OutModelDumpRaises
\* raw_output.model_dump()
ModelDump(v) == CoOutputDump
\* raw_output.dict()
DictMethod(v) == CoOutputDict
\* json.loads(raw_output) succeeds
JsonValid(v) == v \in {OutJsonDict, OutJsonNumber, OutJsonList}
\* json.loads(raw_output)
JsonLoads(v) ==
  CASE v = OutJsonDict -> CoIndustry
    [] v = OutJsonNumber -> CoEmployees
    [] OTHER -> EmptyList

\* lines 95-115: the provider output as company_data
Normalize(raw_output) ==
  IF ~IsStr(raw_output)
  THEN IF HasModelDump(raw_output)
       THEN IF ModelDumpRaises(raw_output)
            THEN RawWrap(raw_output)
            ELSE ModelDump(raw_output)
       ELSE IF HasDictMethod(raw_output)
            THEN DictMethod(raw_output)
            ELSE RawWrap(raw_output)
  ELSE IF JsonValid(raw_output)
       THEN JsonLoads(raw_output)
       ELSE RawWrap(raw_output)

\* isinstance(v, dict), for the values company research handles
IsCompanyDict(v) ==
  v \in {CoIndustry, CoEmployees, CoOutputDump, CoOutputDict}
     \/ v \in {RawWrap(r) : r \in RawOutputs}
     \/ v \in {MockCompany(n) : n \in CompanyNames}

\* "content" in company_data
HasContent(v) == v \in {CoOutputDump, CoOutputDict}

\* company_data["content"]
ContentOf(v) == IF v = CoOutputDump THEN CoText ELSE CoIndustry

\* lines 126-129: what is stored
SaveData(company_data) ==
  IF IsCompanyDict(company_data) /\ HasContent(company_data)
  THEN ContentOf(company_data)
  ELSE company_data

---------------------------------------------------------------------------
(* Results and call counts *)

NoResult ==
  [escaped |-> FALSE, statusCode |-> 0, session_id |-> "", company_url |-> <<>>,
   interviewer_linkedin_id |-> <<>>, interviewer_linkedin_url |-> <<>>,
   status |-> "", body |-> ""]

\* an exception that leaves the handler: no result is returned
Escaped == [NoResult EXCEPT !.escaped = TRUE]

Result(code, body) == [NoResult EXCEPT !.statusCode = code, !.body = body]

NoCalls ==
  [cache_get |-> 0, cache_put |-> 0, task_create |-> 0, task_result |-> 0,
   session_get |-> 0, session_update |-> 0, search |-> 0, profile_request |-> 0,
   llm |-> 0]

---------------------------------------------------------------------------
(* DynamoDB *)

Absent == "<absent>"
NoPrompt == [by |-> 0, text |-> <<>>]

\* a session item as the intake step writes it
IntakeItem ==
  [job_description |-> "Backend Engineer role", resume_text |-> "Resume text",
   company_url |-> <<>>, interviewer_linkedin_id |-> <<>>,
   prompt |-> NoPrompt, prompt_introduction |-> NoPrompt,
   prompt_technical |-> NoPrompt, prompt_behavioral |-> NoPrompt,
   prompt_conclusion |-> NoPrompt, status |-> "PENDING", updated_at |-> 0,
   insights |-> Absent, analysis_status |-> Absent]

\* the item update_item creates when the key has no item: only the key
BlankItem ==
  [IntakeItem EXCEPT !.job_description = Absent, !.resume_text = Absent,
                     !.status = Absent]

\* a put that merges into an existing item: it keeps the stored updated_at
MutPutItemMerge(table, key, item) ==
  [k \in DOMAIN table \cup {key} |->
     IF k # key THEN table[k]
     ELSE IF key \in DOMAIN table
          THEN [item EXCEPT !.updated_at = table[key].updated_at]
          ELSE item]

\* Table.put_item: a full replace of the item under the key
PutItem(table, key, item) ==
  [k \in DOMAIN table \cup {key} |-> IF k = key THEN item ELSE table[k]]

\* the item update_item starts from (DynamoDB creates a missing item)
ItemOrBlank(table, key) == IF key \in DOMAIN table THEN table[key] ELSE BlankItem

\* the outcome of a get_item call: it raises, or it returns a response that
\* holds the Item when the key has one
GetRaised == [kind |-> "raise"]
GetResponse(table, key) ==
  IF key \in DOMAIN table THEN [kind |-> "item", Item |-> table[key]]
  ELSE [kind |-> "absent"]
NotCalled == [kind |-> "none"]

\* the link as a put_item of the key and company_url: a full replace
MutLinkCompanyReplace(table, sid, key) ==
  PutItem(table, sid, [BlankItem EXCEPT !.company_url = key])

\* update_item(Key={'session_id': sid}, UpdateExpression="SET company_url = :url")
LinkCompany(table, sid, key) ==
  PutItem(table, sid, [ItemOrBlank(table, sid) EXCEPT !.company_url = key])

---------------------------------------------------------------------------
(* Invocations *)

NoInputs == [session_id |-> "", interviewer_linkedin_id |-> <<>>, company_url |-> <<>>]

NoTask == [create |-> "none", delay |-> 0, final |-> "empty"]
NoSearch == [kind |-> "none", link |-> <<>>]
NoProfile == [delay |-> 0, pre |-> <<>>, final |-> <<>>]
\* fetch_linkedin_profile before its first request
NoFetched ==
  [profile |-> NoProfile, requests |-> 0, returned |-> FALSE, data |-> NoneV,
   err |-> NoneV]

\* the local variables of an invocation before its first statement; a call
\* that was not made has the outcome "none", a write that was not applied the
\* stamp 0
NoLocals ==
  [cache_response |-> NotCalled, task |-> NoTask, raw_output |-> "",
   company_data |-> NoneV,
   final_key |-> <<>>,
   search |-> NoSearch, linkedin_url |-> <<>>, linkedin_id |-> <<>>,
   fetched |-> NoFetched, llm |-> "none", generated_profile |-> NoneV,
   inputs |-> NoInputs, session_res |-> NotCalled, li_res |-> NotCalled,
   co_res |-> NotCalled, interviewer_research |-> EmptyDict,
   ai_generated_persona_profile |-> "", company_research |-> EmptyDict,
   base_context |-> <<>>, s3 |-> "none", openai |-> "none",
   write |-> "none", link |-> "none", updated_at |-> 0]

\* a process that has not been invoked
NoInvocation ==
  [handler |-> "none", event |-> <<>>, pc |-> "idle", after |-> {},
   loc |-> NoLocals, calls |-> NoCalls, raised |-> {}, path |-> "",
   result |-> NoResult]

\* the invocations that have returned
Returned == {p \in Procs : procs[p].pc = "done"}

\* an invocation of the handler for the event, at its first statement
NewInvocation(handler, event) ==
  [NoInvocation EXCEPT !.handler = handler, !.event = event, !.pc = "entry",
                       !.after = Returned]

\* process 1 is free to start at any time; the others start in their order
CanStart(p) ==
  /\ procs[p].pc = "idle"
  /\ \A q \in Procs : (1 < q /\ q < p) => procs[q].pc # "idle"

\* process p goes on as the invocation given
Step(p, proc) == procs' = [procs EXCEPT ![p] = proc]

\* the invocation is about to return the result
Ends(proc, path, result) ==
  [proc EXCEPT !.pc = "return", !.path = path, !.result = result]

\* the handler returns to its caller
Return(p) ==
  /\ procs[p].pc = "return"
  /\ Step(p, [procs[p] EXCEPT !.pc = "done"])
  /\ UNCHANGED <<cfg, tables, hist, fetch>>

---------------------------------------------------------------------------
(* Company research *)

max_retries == 30

\* Behaviour of the Parallel task API during one invocation: task_run.create
\* succeeds or raises; task_run.result returns an empty output `delay` times
\* and from then on always `final`: an output, "empty" or "raise".
TaskOk == [create |-> "ok", delay |-> 0, final |-> OutJsonDict]
TaskBehaviours ==
  [create : {"ok"}, delay : {0}, final : RawOutputs]
    \cup [create : {"ok"}, delay : {1, max_retries - 1, max_retries}, final : {OutJsonDict}]
    \cup [create : {"ok"}, delay : {0, max_retries - 1}, final : {"raise"}]
    \cup [create : {"ok"}, delay : {0}, final : {"empty"}]
    \cup [create : {"raise"}, delay : {0}, final : {"empty"}]

\* client.beta.task_run.result at the given attempt (1-based)
TaskResult(task, attempt) == IF attempt <= task.delay THEN "empty" ELSE task.final

CompanyEvents ==
  [company_url : CompanyUrls, company_name : CompanyNames, session_id : SessionIds]

\* lines 55-59 and 157-161: the success result
CompanyResult(session_id, key) ==
  [NoResult EXCEPT !.statusCode = 200, !.session_id = session_id, !.company_url = key]

\* lines 120-121: the provider failure result
CompanyFailure(why) ==
  Result(500, "{\"error\": \"Parallel AI Failure: " \o why \o "\"}")

\* lines 44 and 143: session_id and persona_table_name
LinksSession(proc) == proc.event.session_id # "" /\ cfg.persona_table

\* lines 63-75: the lookup found no record (or was not made): the mock data
\* without PARALLEL_AI_API_KEY, else the provider
CompanyAfterLookup(proc) ==
  IF ~cfg.api_key
  THEN [proc EXCEPT !.pc = "put", !.path = "miss",
                    !.loc.company_data = MockCompany(proc.event.company_name)]
  ELSE [proc EXCEPT !.pc = "create", !.path = "miss"]

\* lines 21-38 with the request check of lines 30-31 before the
\* configuration check of lines 27-28
MutCompanyEntryRequestFirst(proc) ==
  IF ~Truthy(proc.event.company_url) /\ ~Truthy(proc.event.company_name)
  THEN Ends(proc, "bad_request",
            Result(400, "{\"error\": \"Either company_url or company_name is required\"}"))
  ELSE IF ~cfg.company_table
  THEN Ends(proc, "config", Result(500, "COMPANY_TABLE_NAME environment variable not set"))
  ELSE IF Truthy(proc.event.company_url)
  THEN [proc EXCEPT !.pc = "get"]
  ELSE CompanyAfterLookup(proc)

\* lines 21-38: from the first statement to the first call
CompanyEntry(proc) ==
  IF ~cfg.company_table
  THEN Ends(proc, "config", Result(500, "COMPANY_TABLE_NAME environment variable not set"))
  ELSE IF ~Truthy(proc.event.company_url) /\ ~Truthy(proc.event.company_name)
  THEN Ends(proc, "bad_request",
            Result(400, "{\"error\": \"Either company_url or company_name is required\"}"))
  ELSE IF Truthy(proc.event.company_url)
  THEN [proc EXCEPT !.pc = "get"]
  ELSE CompanyAfterLookup(proc)

\* lines 40-61 with a failed cache read returned to the caller
MutCompanyLookedUpGetFatal(proc, cache_response) ==
  LET looked == [proc EXCEPT !.loc.cache_response = cache_response,
                             !.calls.cache_get = 1]
  IN  IF cache_response.kind = "raise"
      THEN Ends([looked EXCEPT !.raised = @ \cup {"cache_get"}], "cache_failure",
                Result(500, "{\"error\": \"Cache check failed\"}"))
      ELSE IF cache_response.kind = "item"
      THEN IF LinksSession(proc)
           THEN [looked EXCEPT !.pc = "link", !.path = "hit"]
           ELSE Ends(looked, "hit",
                     CompanyResult(proc.event.session_id, proc.event.company_url))
      ELSE CompanyAfterLookup(looked)

\* lines 40-61: after get_item raised or returned its response
CompanyLookedUp(proc, cache_response) ==
  LET looked == [proc EXCEPT !.loc.cache_response = cache_response,
                             !.calls.cache_get = 1,
                             !.raised = IF cache_response.kind = "raise"
                                        THEN @ \cup {"cache_get"} ELSE @]
  IN  IF cache_response.kind = "item"
      THEN IF LinksSession(proc)
           THEN [looked EXCEPT !.pc = "link", !.path = "hit"]
           ELSE Ends(looked, "hit",
                     CompanyResult(proc.event.session_id, proc.event.company_url))
      ELSE CompanyAfterLookup(looked)

\* lines 76-86 and 120-121: after task_run.create raised or returned
CompanyCreated(proc, task) ==
  LET created == [proc EXCEPT !.loc.task = task, !.calls.task_create = 1]
  IN  IF task.create = "raise"
      THEN Ends([created EXCEPT !.raised = @ \cup {"task_create"}],
                "provider_failure", CompanyFailure("create failed"))
      ELSE [created EXCEPT !.pc = "poll"]

\* one pass of the loop of lines 90-119 with the budget given: the loop is
\* left through its else clause when the budget is used up; otherwise
\* task_run.result is called, and the pass ends in the break of line 116, in
\* the except of lines 120-121 or in the sleep of line 117
PollPass(proc, budget) ==
  IF proc.calls.task_result >= budget
  THEN Ends([proc EXCEPT !.raised = @ \cup {"poll_timeout"}],
            "provider_failure", CompanyFailure("Parallel AI task timed out."))
  ELSE LET attempt == proc.calls.task_result + 1
           output == TaskResult(proc.loc.task, attempt)
           asked == [proc EXCEPT !.calls.task_result = attempt]
       IN  IF output = "raise"
           THEN Ends([asked EXCEPT !.raised = @ \cup {"task_result"}],
                     "provider_failure", CompanyFailure("result failed"))
           ELSE IF output # "empty"
           THEN [asked EXCEPT !.pc = "put", !.loc.raw_output = output,
                              !.loc.company_data = Normalize(output)]
           ELSE asked

\* the polling loop with one attempt too many
MutCompanyPolledExtra(proc) == PollPass(proc, max_retries + 1)

\* lines 89-121: for _ in range(max_retries), one pass
CompanyPolled(proc) == PollPass(proc, max_retries)

\* line 133: the key the record is stored under
ResolvedKey(event) ==
  IF Truthy(event.company_url) THEN event.company_url
  ELSE FallbackKey(event.company_name)

\* lines 136-140: the item put_item is given; t is the reading of time.time()
CompanyItem(proc, t) ==
  [data |-> SaveData(proc.loc.company_data), updated_at |-> StatusText(t)]

\* lines 124-161 with the session linked although the put failed
MutCompanyStoredLinkAnyway(proc, outcome, t) ==
  LET stored == [proc EXCEPT !.loc.final_key = ResolvedKey(proc.event),
                             !.loc.write = outcome,
                             !.loc.updated_at = IF outcome = "ok" THEN t ELSE 0,
                             !.calls.cache_put = 1,
                             !.raised = IF outcome = "raise"
                                        THEN @ \cup {"cache_put"} ELSE @]
  IN  IF LinksSession(proc)
      THEN [stored EXCEPT !.pc = "link"]
      ELSE Ends(stored, "miss",
                CompanyResult(proc.event.session_id, ResolvedKey(proc.event)))

\* lines 124-161: after put_item raised or returned
CompanyStored(proc, outcome, t) ==
  LET stored == [proc EXCEPT !.loc.final_key = ResolvedKey(proc.event),
                             !.loc.write = outcome,
                             !.loc.updated_at = IF outcome = "ok" THEN t ELSE 0,
                             !.calls.cache_put = 1,
                             !.raised = IF outcome = "raise"
                                        THEN @ \cup {"cache_put"} ELSE @]
  IN  IF outcome = "ok" /\ LinksSession(proc)
      THEN [stored EXCEPT !.pc = "link"]
      ELSE Ends(stored, "miss",
                CompanyResult(proc.event.session_id, ResolvedKey(proc.event)))

\* lines 47-51 and 145-149: the key the session is linked to
LinkKey(proc) ==
  IF proc.path = "hit" THEN proc.event.company_url ELSE proc.loc.final_key

\* lines 44-59 and 143-161: after update_item raised or returned
CompanyLinked(proc, outcome) ==
  Ends([proc EXCEPT !.loc.link = outcome,
                    !.calls.session_update = 1,
                    !.raised = IF outcome = "raise"
                               THEN @ \cup {"session_update"} ELSE @],
       proc.path, CompanyResult(proc.event.session_id, LinkKey(proc)))

\* company_research lambda_handler is invoked
CompanyStart(p, events) ==
  /\ CanStart(p)
  /\ \E event \in events : Step(p, CompanyEntry(NewInvocation("company", event)))
  /\ UNCHANGED <<cfg, tables, hist, fetch>>

\* line 40: table.get_item(Key={'company_url': company_url})
CompanyGet(p) ==
  LET proc == procs[p]
  IN  /\ proc.handler = "company" /\ proc.pc = "get"
      /\ \E cache_response \in {GetRaised,
                                GetResponse(companyTable, proc.event.company_url)} :
           Step(p, CompanyLookedUp(proc, cache_response))
      /\ UNCHANGED <<cfg, tables, hist, fetch>>

\* lines 82-86: client.beta.task_run.create
CompanyCreate(p, tasks) ==
  LET proc == procs[p]
  IN  /\ proc.handler = "company" /\ proc.pc = "create"
      /\ \E task \in tasks : Step(p, CompanyCreated(proc, task))
      /\ UNCHANGED <<cfg, tables, hist, fetch>>

\* lines 90-119: one pass of the polling loop, client.beta.task_run.result
CompanyPoll(p) ==
  LET proc == procs[p]
  IN  /\ proc.handler = "company" /\ proc.pc = "poll"
      /\ Step(p, CompanyPolled(proc))
      /\ UNCHANGED <<cfg, tables, hist, fetch>>

\* lines 136-140: table.put_item
CompanyPut(p) ==
  LET proc == procs[p]
  IN  /\ proc.handler = "company" /\ proc.pc = "put"
      /\ \E outcome \in {"ok", "raise"}, t \in Times :
           /\ outcome = "raise" => t = 1
           /\ companyTable' =
                IF outcome = "ok"
                THEN PutItem(companyTable, ResolvedKey(proc.event), CompanyItem(proc, t))
                ELSE companyTable
           /\ Step(p, CompanyStored(proc, outcome, t))
      /\ UNCHANGED <<cfg, linkedinTable, personaTable, hist, fetch>>

\* lines 47-51 and 145-149: persona_table.update_item
CompanyLink(p) ==
  LET proc == procs[p]
  IN  /\ proc.handler = "company" /\ proc.pc = "link"
      /\ \E outcome \in {"ok", "raise"} :
           /\ personaTable' =
                IF outcome = "ok"
                THEN LinkCompany(personaTable, proc.event.session_id, LinkKey(proc))
                ELSE personaTable
           /\ hist' = IF outcome = "ok"
                      THEN [hist EXCEPT !.link[proc.event.session_id] = p]
                      ELSE hist
           /\ Step(p, CompanyLinked(proc, outcome))
      /\ UNCHANGED <<cfg, companyTable, linkedinTable, fetch>>

(* Interviewer research: identity resolution and the profile fetch *)

LinkedinPattern ==
  <<"l", "i", "n", "k", "e", "d", "i", "n", ".", "c", "o", "m", "/", "i", "n", "/">>

LiUrlJd == LinkedinPattern \o <<"j", "d">>
\* the same profile reached through another URL
LiUrlJdQuery == <<"w", "."  >> \o LinkedinPattern \o <<"j", "d", "?", "x">>
\* a URL with no /in/<handle> part
LiUrlCompany == <<"l", "i", "n", "k", "e", "d", "i", "n", ".", "c", "o", "m", "/", "x">>
\* a URL whose handle is empty
LiUrlNoHandle == LinkedinPattern \o <<"/">>

HandleJd == <<"j", "d">>

\* the characters [^/?]
HandleChar(c) == c \notin {"/", "?"}

\* the longest run of handle characters of s from position i on
RECURSIVE HandleRun(_, _)
HandleRun(s, i) ==
  IF i <= Len(s) /\ HandleChar(s[i]) THEN <<s[i]>> \o HandleRun(s, i + 1) ELSE <<>>

\* re.search(r"linkedin\.com/in/([^/?]+)", s), tried from position i on
RECURSIVE SearchHandle(_, _)
SearchHandle(s, i) ==
  IF i + Len(LinkedinPattern) > Len(s)
  THEN <<>>
  ELSE IF SubSeq(s, i, i + Len(LinkedinPattern) - 1) = LinkedinPattern
            /\ HandleChar(s[i + Len(LinkedinPattern)])
       THEN HandleRun(s, i + Len(LinkedinPattern))
       ELSE SearchHandle(s, i + 1)

\* extract_linkedin_id; <<>> is None
extract_linkedin_id(linkedin_url) ==
  IF ~Truthy(linkedin_url) THEN <<>> ELSE SearchHandle(linkedin_url, 1)

\* Python values of the LinkedIn research
LiProfile == "{name: J Doe, headline: CTO, summary: Builds teams}"
LiProfileBare == "{name: J Doe}"
LiProfileList == "[{name: J Doe, headline: CTO, summary: Builds teams}]"
\* a profile holding a number, which boto3 returns as a Decimal
LiProfileCounted == "{name: J Doe, connections: 500}"
\* the generic senior persona of lines 99-111, and its summary
GenericPersona == "{name: Alex Mercer, headline: Senior Engineering Manager, summary: ..., experience: [...], skills: [...]}"
GenericSummary == "Experienced engineering leader with over 15 years in software development, cloud architecture, and team building. Passionate about scalable systems and mentorship."

\* the body of a 200 response that is not JSON
BodyNotJson == "<html>"

\* res.json() succeeds
BodyIsJson(body) == body # BodyNotJson

max_attempts == 15

TimeoutReason == "Timed out waiting for scrape"

\* One response of requests.get: an HTTP response, a requests Timeout or another
\* exception with its message str(e), which may be empty.
HttpResponse(code, body) == [kind |-> "response", code |-> code, body |-> body]
HttpTimeout == [kind |-> "timeout", code |-> 0, body |-> ""]
HttpError(msg) == [kind |-> "error", code |-> 0, body |-> msg]

Retryable == {HttpResponse(202, ""), HttpTimeout}
Terminal ==
  {HttpResponse(200, LiProfileList), HttpResponse(200, LiProfile),
   HttpResponse(200, LiProfileCounted),
   HttpResponse(200, EmptyList), HttpResponse(200, BodyNotJson),
   HttpResponse(404, "not found"), HttpResponse(403, "forbidden"),
   HttpResponse(429, "slow down"),
   HttpError("Connection aborted."), HttpError("")}

\* Behaviour of the profile API during one fetch: `pre` for the first `delay`
\* requests, then `final` for ever.
ProfileOk == [delay |-> 0, pre |-> HttpTimeout, final |-> HttpResponse(200, LiProfileList)]
ProfileBehaviours ==
  [delay : 0..(max_attempts + 1), pre : Retryable, final : Terminal \cup Retryable]

\* requests.get at the given attempt (1-based)
ProfileResponse(profile, attempt) ==
  IF attempt <= profile.delay THEN profile.pre ELSE profile.final

\* one pass of the loop of lines 111-128 with the budget given: the function
\* returns the timeout reason of line 128 when the budget is used up;
\* otherwise requests.get is called, and the pass ends in a return or in the
\* sleep of line 119 or 124
FetchPass(frame, budget) ==
  IF frame.requests >= budget
  THEN [frame EXCEPT !.returned = TRUE, !.err = TimeoutReason]
  ELSE LET attempt == frame.requests + 1
           res == ProfileResponse(frame.profile, attempt)
           asked == [frame EXCEPT !.requests = attempt]
       IN  CASE res.kind = "timeout" -> asked
             [] res.kind = "error" ->
                  [asked EXCEPT !.returned = TRUE, !.err = res.body]
             [] res.code = 200 ->
                  IF BodyIsJson(res.body)
                  THEN [asked EXCEPT !.returned = TRUE, !.data = res.body]
                  ELSE [asked EXCEPT !.returned = TRUE,
                                     !.err = "Expecting value: line 1 column 1 (char 0)"]
             [] res.code = 202 -> asked
             [] OTHER ->
                  [asked EXCEPT !.returned = TRUE,
                                !.err = StatusText(res.code) \o ": " \o res.body]

\* the loop with an attempt budget one too large
MutFetchExtraAttempt(frame) == FetchPass(frame, max_attempts + 1)

\* the loop taking every status other than 200 for "in progress"
MutFetchRetriesStatus(frame) ==
  LET lenient(res) == IF res.kind = "response" /\ res.code # 200
                      THEN HttpResponse(202, "") ELSE res
      passed == FetchPass([frame EXCEPT !.profile.pre = lenient(@),
                                        !.profile.final = lenient(@)],
                          max_attempts)
  IN  [passed EXCEPT !.profile = frame.profile]

\* fetch_linkedin_profile, one pass of its loop
fetch_linkedin_profile(frame) == FetchPass(frame, max_attempts)

\* Python truthiness of a value that is None or a text
TruthyText(x) == x \notin {NoneV, ""}
\* Python truthiness of research data
TruthyData(v) == v \notin {NoneV, EmptyDict, EmptyList, ""}

GeneratedProfile == "## Bio\nJ Doe is a CTO"

\* generate_persona_profile: None for empty data or a failed LLM call
generate_persona_profile(interviewer_data, llm) ==
  IF ~TruthyData(interviewer_data) THEN NoneV
  ELSE IF llm = "ok" THEN GeneratedProfile ELSE NoneV

\* find_linkedin_url: the first organic result's link, None on any failure
SearchOutcomes ==
  {[kind |-> "raise", link |-> <<>>], [kind |-> "no_results", link |-> <<>>],
   [kind |-> "link", link |-> LiUrlJd], [kind |-> "link", link |-> LiUrlCompany]}
find_linkedin_url(search) == IF search.kind = "link" THEN search.link ELSE <<>>

---------------------------------------------------------------------------
(* Interviewer research: the handler *)

\* a request either gives a LinkedIn URL or leaves it to the search
InterviewerEvents ==
  [interviewer_name : {""}, company_name : {""}, interviewer_company : {""},
   interviewer_linkedin_url : {LiUrlJd, LiUrlJdQuery, LiUrlCompany, LiUrlNoHandle},
   session_id : {"", "s1"}]
  \cup
  [interviewer_name : {"", "Jane Doe"}, company_name : {"", "Tech Corp"},
   interviewer_company : {"", "Tech Corp"}, interviewer_linkedin_url : {<<>>},
   session_id : {"s1"}]

\* lines 150-155, 164-169, 174-179, 203-208: a result without a handle
InterviewerResult(event, status, message) ==
  [NoResult EXCEPT !.statusCode = 200, !.session_id = event.session_id,
                   !.status = status, !.body = message]

\* lines 189-195 and 230-236: the success result
InterviewerSuccess(event, linkedin_id, linkedin_url) ==
  [NoResult EXCEPT !.statusCode = 200, !.session_id = event.session_id,
                   !.interviewer_linkedin_id = linkedin_id,
                   !.interviewer_linkedin_url = linkedin_url,
                   !.status = "SUCCESS"]

\* lines 171-181: from the resolved URL to the cache lookup
InterviewerResolved(proc, linkedin_url) ==
  LET linkedin_id == extract_linkedin_id(linkedin_url)
  IN  IF ~Truthy(linkedin_id)
      THEN Ends([proc EXCEPT !.loc.linkedin_url = linkedin_url], "invalid_url",
                InterviewerResult(proc.event, "FAILED_OPTIONAL",
                                  "Invalid LinkedIn URL format"))
      ELSE [proc EXCEPT !.pc = "get", !.loc.linkedin_url = linkedin_url,
                        !.loc.linkedin_id = linkedin_id]

\* lines 137-161 without the check of lines 147-155: a request with no URL
\* always goes to the search
MutInterviewerEntryNoSkip(proc) ==
  IF ~cfg.linkedin_table
  THEN Ends(proc, "config", Result(500, "LINKEDIN_TABLE_NAME not set"))
  ELSE IF ~Truthy(proc.event.interviewer_linkedin_url)
  THEN [proc EXCEPT !.pc = "search"]
  ELSE InterviewerResolved(proc, proc.event.interviewer_linkedin_url)

\* lines 137-161: from the first statement to the first call
InterviewerEntry(proc) ==
  LET company_name == IF proc.event.company_name # "" THEN proc.event.company_name
                      ELSE proc.event.interviewer_company
  IN  IF ~cfg.linkedin_table
      THEN Ends(proc, "config", Result(500, "LINKEDIN_TABLE_NAME not set"))
      ELSE IF ~Truthy(proc.event.interviewer_linkedin_url)
                /\ ~(proc.event.interviewer_name # "" /\ company_name # "")
      THEN Ends(proc, "skipped",
                InterviewerResult(proc.event, "SKIPPED", "No interviewer details provided"))
      ELSE IF ~Truthy(proc.event.interviewer_linkedin_url)
      THEN [proc EXCEPT !.pc = "search"]
      ELSE InterviewerResolved(proc, proc.event.interviewer_linkedin_url)

\* lines 160-169: after find_linkedin_url
InterviewerSearched(proc, search) ==
  LET asked == [proc EXCEPT !.loc.search = search, !.calls.search = 1,
                            !.raised = IF search.kind = "raise"
                                       THEN @ \cup {"search"} ELSE @]
  IN  IF ~Truthy(find_linkedin_url(search))
      THEN Ends(asked, "not_found",
                InterviewerResult(proc.event, "FAILED_OPTIONAL",
                                  "LinkedIn profile not found"))
      ELSE InterviewerResolved(asked, find_linkedin_url(search))

\* lines 182-197: after get_item raised or returned its response
InterviewerLookedUp(proc, cache_res) ==
  LET looked == [proc EXCEPT !.loc.cache_response = cache_res,
                             !.calls.cache_get = 1,
                             !.raised = IF cache_res.kind = "raise"
                                        THEN @ \cup {"cache_get"} ELSE @]
  IN  IF cache_res.kind = "item"
      THEN Ends(looked, "hit",
                InterviewerSuccess(proc.event, proc.loc.linkedin_id,
                                   proc.loc.linkedin_url))
      ELSE [looked EXCEPT !.pc = "fetch", !.path = "miss"]

\* lines 200-212: after one pass of fetch_linkedin_profile; when it has
\* returned data that is empty, generate_persona_profile returns None at
\* once (lines 20-21)
InterviewerFetched(proc) ==
  LET fetched == fetch_linkedin_profile(proc.loc.fetched)
      asked == [proc EXCEPT !.loc.fetched = fetched,
                            !.calls.profile_request = fetched.requests]
  IN  IF ~fetched.returned
      THEN asked
      ELSE IF TruthyText(fetched.err)
      THEN Ends([asked EXCEPT !.raised = @ \cup {"profile"}], "fetch_failed",
                InterviewerResult(proc.event, "FAILED_OPTIONAL",
                                  "Scraping failed: " \o fetched.err))
      ELSE IF TruthyData(fetched.data)
      THEN [asked EXCEPT !.pc = "generate"]
      ELSE [asked EXCEPT !.pc = "put"]

\* lines 212 and 40-63: after the OpenAI request raised or returned
InterviewerGenerated(proc, llm) ==
  [proc EXCEPT !.pc = "put", !.loc.llm = llm,
               !.loc.generated_profile =
                  generate_persona_profile(proc.loc.fetched.data, llm),
               !.calls.llm = 1,
               !.raised = IF llm = "raise" THEN @ \cup {"llm"} ELSE @]

\* lines 217-224 keyed by the raw profile URL instead of the handle
MutInterviewerPutKeyRaw(proc) == proc.loc.linkedin_url

\* line 219: the key the record is stored under
InterviewerPutKey(proc) == proc.loc.linkedin_id

\* lines 218-223: the item put_item is given; t is the reading of time.time()
InterviewerItem(proc, t) ==
  [data |-> proc.loc.fetched.data, persona_profile |-> proc.loc.generated_profile,
   updated_at |-> t]

\* lines 215-236: after put_item raised or returned
InterviewerStored(proc, outcome, t) ==
  Ends([proc EXCEPT !.loc.write = outcome,
                    !.loc.updated_at = IF outcome = "ok" THEN t ELSE 0,
                    !.calls.cache_put = 1,
                    !.raised = IF outcome = "raise" THEN @ \cup {"cache_put"} ELSE @],
       "miss",
       InterviewerSuccess(proc.event, proc.loc.linkedin_id, proc.loc.linkedin_url))

\* interviewer_research lambda_handler is invoked
InterviewerStart(p, events) ==
  /\ CanStart(p)
  /\ \E event \in events :
       Step(p, InterviewerEntry(NewInvocation("interviewer", event)))
  /\ UNCHANGED <<cfg, tables, hist, fetch>>

\* line 161: find_linkedin_url
InterviewerSearch(p) ==
  LET proc == procs[p]
  IN  /\ proc.handler = "interviewer" /\ proc.pc = "search"
      /\ \E search \in SearchOutcomes : Step(p, InterviewerSearched(proc, search))
      /\ UNCHANGED <<cfg, tables, hist, fetch>>

\* lines 183-185: interviewer_table.get_item(Key={"linkedin_url": linkedin_id})
InterviewerGet(p) ==
  LET proc == procs[p]
  IN  /\ proc.handler = "interviewer" /\ proc.pc = "get"
      /\ \E cache_res \in {GetRaised,
                           GetResponse(linkedinTable, proc.loc.linkedin_id)} :
           Step(p, InterviewerLookedUp(proc, cache_res))
      /\ UNCHANGED <<cfg, tables, hist, fetch>>

\* line 114: requests.get, one pass of the loop of fetch_linkedin_profile; the
\* behaviour of the profile API is drawn at the first request
InterviewerRequest(p, profiles) ==
  LET proc == procs[p]
  IN  /\ proc.handler = "interviewer" /\ proc.pc = "fetch"
      /\ \E profile \in (IF proc.calls.profile_request = 0 THEN profiles
                          ELSE {proc.loc.fetched.profile}) :
           Step(p, InterviewerFetched([proc EXCEPT !.loc.fetched.profile = profile]))
      /\ UNCHANGED <<cfg, tables, hist, fetch>>

\* line 56: requests.post to OpenAI in generate_persona_profile
InterviewerGenerate(p) ==
  LET proc == procs[p]
  IN  /\ proc.handler = "interviewer" /\ proc.pc = "generate"
      /\ \E llm \in {"ok", "raise"} : Step(p, InterviewerGenerated(proc, llm))
      /\ UNCHANGED <<cfg, tables, hist, fetch>>

\* lines 217-224: interviewer_table.put_item
InterviewerPut(p) ==
  LET proc == procs[p]
  IN  /\ proc.handler = "interviewer" /\ proc.pc = "put"
      /\ \E outcome \in {"ok", "raise"}, t \in Times :
           /\ outcome = "raise" => t = 1
           /\ linkedinTable' =
                IF outcome = "ok"
                THEN PutItem(linkedinTable, InterviewerPutKey(proc),
                             InterviewerItem(proc, t))
                ELSE linkedinTable
           /\ Step(p, InterviewerStored(proc, outcome, t))
      /\ UNCHANGED <<cfg, companyTable, personaTable, hist, fetch>>

---------------------------------------------------------------------------
(* Persona generator *)

Dicts ==
  {EmptyDict, LiProfile, LiProfileBare, LiProfileCounted, GenericPersona,
   CoIndustry, CoEmployees}

\* isinstance(v, dict)
IsDict(v) == v \in Dicts
\* isinstance(v, list) and len(v) > 0
IsNonEmptyList(v) == v = LiProfileList
\* v[0]
ListFirst(v) == LiProfile

\* the items of a dict
DictItems(v) ==
  CASE v = LiProfile ->
         [name |-> "J Doe", headline |-> "CTO", summary |-> "Builds teams"]
    [] v = LiProfileBare -> [name |-> "J Doe"]
    [] v = LiProfileCounted -> [name |-> "J Doe", connections |-> "500"]
    [] v = GenericPersona ->
         [name |-> "Alex Mercer", headline |-> "Senior Engineering Manager",
          summary |-> GenericSummary,
          experience |-> "[{title: Senior Engineering Manager, company: Tech Innovations Inc., description: Leading cross-functional teams to deliver high-scale distributed systems.}]",
          skills |-> "[System Design, Leadership, Python, Cloud Architecture]"]
    [] v = CoIndustry -> [industry |-> "SaaS"]
    [] v = CoEmployees -> [employees |-> "50"]
    [] OTHER -> [k \in {} |-> ""]

\* dict.get(key, default)
DictGet(v, key, default) ==
  IF key \in DOMAIN DictItems(v) THEN DictItems(v)[key] ELSE default

\* json.dumps(v, indent=2) raises TypeError: the value was read from DynamoDB
\* and holds a number, which boto3 returns as a Decimal
DumpsRaises(v) == v \in {CoEmployees, LiProfileCounted}

\* json.dumps(v, indent=2) of a value it can serialize
Dumps(v) ==
  CASE v = EmptyDict -> "{}"
    [] v = EmptyList -> "[]"
    [] v = NoneV -> "null"
    [] v = CoIndustry -> "{\n  \"industry\": \"SaaS\"\n}"
    [] v = CoText -> "\"Acme builds SaaS\""
    [] v = LiProfile ->
         "{\n  \"name\": \"J Doe\",\n  \"headline\": \"CTO\",\n  \"summary\": \"Builds teams\"\n}"
    [] v = LiProfileBare -> "{\n  \"name\": \"J Doe\"\n}"
    [] v = GenericPersona ->
         "{\n  \"name\": \"Alex Mercer\",\n  \"headline\": \"Senior Engineering Manager\",\n  \"summary\": \"Experienced engineering leader with over 15 years in software development, cloud architecture, and team building. Passionate about scalable systems and mentorship.\",\n  \"experience\": [\n    {\n      \"title\": \"Senior Engineering Manager\",\n      \"company\": \"Tech Innovations Inc.\",\n      \"description\": \"Leading cross-functional teams to deliver high-scale distributed systems.\"\n    }\n  ],\n  \"skills\": [\n    \"System Design\",\n    \"Leadership\",\n    \"Python\",\n    \"Cloud Architecture\"\n  ]\n}"
    [] OTHER -> "json " \o v

\* lines 119-125: the fallback profile
FallbackProfile(interviewer_research) ==
  "\n        ## Bio\n        "
    \o DictGet(interviewer_research, "summary", "Experienced Professional")
    \o "\n        \n        ## Role\n        "
    \o DictGet(interviewer_research, "headline", "Hiring Manager")
    \o "\n        "

\* the fixed instruction block of a stage (lines 216-330)
StageSuffix(stage) ==
  CASE stage = "introduction" -> "CURRENT STAGE: INTRODUCTION (0-15% of interview)"
    [] stage = "technical" -> "CURRENT STAGE: TECHNICAL (15-70% of interview)"
    [] stage = "behavioral" -> "CURRENT STAGE: BEHAVIORAL (70-90% of interview)"
    [] OTHER -> "CURRENT STAGE: CONCLUSION (90-100% of interview)"

\* lines 140-213: the base context, as its sections in order
BaseContext(profile, interviewer_research, company_research, job_description, resume_text) ==
  <<"1. IDENTITY & STYLE (AUTHORITATIVE)", profile,
    "# RAW DATA (SUPPORTING EVIDENCE)", Dumps(interviewer_research),
    "2. COMPANY CONTEXT", Dumps(company_research),
    "3. JOB CONTEXT (PRIMARY SOURCE OF TRUTH)", job_description,
    "4. CANDIDATE INFO", resume_text,
    "5. CRITICAL BEHAVIORAL RULES (STRICT)">>

\* a stage prompt: base_context + the stage's block; `by` is the invocation
\* that built it (a history field, not stored text)
Prompt(base_context, stage, by) ==
  [by |-> by, text |-> base_context \o <<StageSuffix(stage)>>]

\* a text is a section of the prompt
Contains(prompt, text) == \E i \in 1..Len(prompt.text) : prompt.text[i] = text

\* a request object, or one element of a list event
PersonaItem(is_dict, session_id, linkedin_id, company_url) ==
  [is_dict |-> is_dict, session_id |-> session_id,
   interviewer_linkedin_id |-> linkedin_id, company_url |-> company_url]

\* lines 36-46 keeping the first truthy value of each field, not the last
RECURSIVE MutExtractListFirst(_, _)
MutExtractListFirst(items, acc) ==
  IF items = <<>> THEN acc
  ELSE LET item == Head(items)
           next == IF ~item.is_dict THEN acc
                   ELSE [session_id |->
                           IF acc.session_id # "" THEN acc.session_id
                           ELSE item.session_id,
                         interviewer_linkedin_id |->
                           IF Truthy(acc.interviewer_linkedin_id)
                           THEN acc.interviewer_linkedin_id
                           ELSE item.interviewer_linkedin_id,
                         company_url |->
                           IF Truthy(acc.company_url) THEN acc.company_url
                           ELSE item.company_url]
       IN  MutExtractListFirst(Tail(items), next)

\* lines 36-46: the last truthy value of each field among the dict items
RECURSIVE ExtractList(_, _)
ExtractList(items, acc) ==
  IF items = <<>> THEN acc
  ELSE LET item == Head(items)
           next == IF ~item.is_dict THEN acc
                   ELSE [session_id |->
                           IF item.session_id # "" THEN item.session_id
                           ELSE acc.session_id,
                         interviewer_linkedin_id |->
                           IF Truthy(item.interviewer_linkedin_id)
                           THEN item.interviewer_linkedin_id
                           ELSE acc.interviewer_linkedin_id,
                         company_url |->
                           IF Truthy(item.company_url) THEN item.company_url
                           ELSE acc.company_url]
       IN  ExtractList(Tail(items), next)

\* lines 31-51: session_id, linkedin_id and company_url of the event
ExtractInputs(event) ==
  IF event.shape = "list" THEN ExtractList(event.items, NoInputs)
  ELSE [session_id |-> event.items[1].session_id,
        interviewer_linkedin_id |-> event.items[1].interviewer_linkedin_id,
        company_url |-> event.items[1].company_url]

\* lines 95-111: no linkedin_id, the generic senior persona
GenericInterviewer == [research |-> GenericPersona, profile |-> ""]

\* lines 73-91 and 113-114: interviewer_research and the stored persona
\* profile, from what get_item raised or returned
InterviewerContext(li_res) ==
  IF li_res.kind = "item"
  THEN [research |-> IF IsNonEmptyList(li_res.Item.data)
                     THEN ListFirst(li_res.Item.data)
                     ELSE li_res.Item.data,
        profile |-> li_res.Item.persona_profile]
  ELSE [research |-> EmptyDict, profile |-> ""]

\* lines 128-137: company_research, from what get_item raised or returned
CompanyContext(co_res) ==
  IF co_res.kind = "item" THEN co_res.Item.data ELSE EmptyDict

\* lines 332-353 writing only the introduction prompt and the status
MutSavePromptsPartial(table, sid, base_context, by, t) ==
  PutItem(table, sid,
          [ItemOrBlank(table, sid) EXCEPT
             !.prompt = Prompt(base_context, "introduction", by),
             !.prompt_introduction = Prompt(base_context, "introduction", by),
             !.status = "READY",
             !.updated_at = t])

\* lines 332-353 as a put_item of the prompt fields: a full replace
MutSavePromptsReplace(table, sid, base_context, by, t) ==
  PutItem(table, sid,
          [BlankItem EXCEPT
             !.prompt = Prompt(base_context, "introduction", by),
             !.prompt_introduction = Prompt(base_context, "introduction", by),
             !.prompt_technical = Prompt(base_context, "technical", by),
             !.prompt_behavioral = Prompt(base_context, "behavioral", by),
             !.prompt_conclusion = Prompt(base_context, "conclusion", by),
             !.status = "READY",
             !.updated_at = t])

\* lines 334-353: one update_item setting the prompts, the status and
\* updated_at; t is the reading of time.time()
SavePrompts(table, sid, base_context, by, t) ==
  PutItem(table, sid,
          [ItemOrBlank(table, sid) EXCEPT
             !.prompt = Prompt(base_context, "introduction", by),
             !.prompt_introduction = Prompt(base_context, "introduction", by),
             !.prompt_technical = Prompt(base_context, "technical", by),
             !.prompt_behavioral = Prompt(base_context, "behavioral", by),
             !.prompt_conclusion = Prompt(base_context, "conclusion", by),
             !.status = "READY",
             !.updated_at = t])

\* lines 333-358 with the introduction prompt left behind by a failed update
MutPersonaUpdateItemPartial(table, sid, base_context, by, outcome, t) ==
  IF outcome = "ok" THEN SavePrompts(table, sid, base_context, by, t)
  ELSE MutSavePromptsPartial(table, sid, base_context, by, t)

\* lines 333-358: the session table after update_item returned or raised
PersonaUpdateItem(table, sid, base_context, by, outcome, t) ==
  IF outcome = "ok" THEN SavePrompts(table, sid, base_context, by, t) ELSE table

\* lines 139-330: the prompts are built; json.dumps is outside any try
PersonaBuilt(proc, company_research) ==
  LET session_item == proc.loc.session_res.Item
      job_description == IF session_item.job_description = Absent THEN ""
                         ELSE session_item.job_description
      resume_text == IF session_item.resume_text = Absent THEN "No resume provided."
                     ELSE session_item.resume_text
      read == [proc EXCEPT !.loc.company_research = company_research]
  IN  IF DumpsRaises(proc.loc.interviewer_research) \/ DumpsRaises(company_research)
      THEN Ends([read EXCEPT !.raised = @ \cup {"json_dumps"}], "escaped", Escaped)
      ELSE [read EXCEPT !.pc = "update",
                        !.loc.base_context =
                           BaseContext(proc.loc.ai_generated_persona_profile,
                                       proc.loc.interviewer_research,
                                       company_research, job_description,
                                       resume_text)]

\* lines 116-131: the fallback profile, then the company lookup if a
\* company_url was given; interviewer_research.get is outside any try
PersonaAfterInterviewer(proc, ic) ==
  LET read == [proc EXCEPT !.loc.interviewer_research = ic.research]
  IN  IF ~TruthyText(ic.profile) /\ ~IsDict(ic.research)
      THEN Ends([read EXCEPT !.raised = @ \cup {"fallback_profile"}], "escaped", Escaped)
      ELSE LET profiled ==
                 [read EXCEPT !.loc.ai_generated_persona_profile =
                                 IF TruthyText(ic.profile) THEN ic.profile
                                 ELSE FallbackProfile(ic.research)]
           IN  IF Truthy(proc.loc.inputs.company_url)
               THEN [profiled EXCEPT !.pc = "co"]
               ELSE PersonaBuilt(profiled, EmptyDict)

\* lines 61-80: after the session get_item, which is outside any try
PersonaLoaded(proc, session_res) ==
  LET asked == [proc EXCEPT !.loc.session_res = session_res,
                            !.calls.session_get = 1]
  IN  IF session_res.kind = "raise"
      THEN Ends([asked EXCEPT !.raised = @ \cup {"session_get"}], "escaped", Escaped)
      ELSE IF session_res.kind = "absent"
      THEN Ends(asked, "not_found",
                Result(404, "{\"error\": \"Session " \o proc.loc.inputs.session_id
                              \o " not found\"}"))
      ELSE IF Truthy(proc.loc.inputs.interviewer_linkedin_id)
      THEN [asked EXCEPT !.pc = "li"]
      ELSE PersonaAfterInterviewer(asked, GenericInterviewer)

\* lines 26-57: from the first statement to the first call
PersonaEntry(proc) ==
  LET inputs == ExtractInputs(proc.event)
  IN  IF ~(cfg.persona_table /\ cfg.company_table /\ cfg.linkedin_table)
      THEN Ends(proc, "config", Result(500, "Missing table configuration"))
      ELSE IF inputs.session_id = ""
      THEN Ends([proc EXCEPT !.loc.inputs = inputs], "bad_request",
                Result(400, "session_id is required"))
      ELSE [proc EXCEPT !.pc = "session", !.loc.inputs = inputs]

\* lines 333-364: after update_item raised or returned
PersonaSaved(proc, outcome, t) ==
  LET saved == [proc EXCEPT !.loc.write = outcome,
                            !.loc.updated_at = IF outcome = "ok" THEN t ELSE 0,
                            !.calls.session_update = 1,
                            !.raised = IF outcome = "raise"
                                       THEN @ \cup {"session_update"} ELSE @]
  IN  IF outcome = "raise"
      THEN Ends(saved, "save_failed",
                Result(500, "{\"error\": \"Failed to save persona: session_update\"}"))
      ELSE Ends(saved, "ready",
                [NoResult EXCEPT !.statusCode = 200,
                                 !.session_id = proc.loc.inputs.session_id,
                                 !.status = "READY"])

\* persona_generator lambda_handler is invoked
PersonaStart(p, events) ==
  /\ CanStart(p)
  /\ \E event \in events : Step(p, PersonaEntry(NewInvocation("persona", event)))
  /\ UNCHANGED <<cfg, tables, hist, fetch>>

\* line 61: persona_table.get_item(Key={"session_id": session_id})
PersonaSessionGet(p) ==
  LET proc == procs[p]
  IN  /\ proc.handler = "persona" /\ proc.pc = "session"
      /\ \E session_res \in {GetRaised,
                             GetResponse(personaTable, proc.loc.inputs.session_id)} :
           Step(p, PersonaLoaded(proc, session_res))
      /\ UNCHANGED <<cfg, tables, hist, fetch>>

\* line 81: li_table.get_item(Key={"linkedin_url": linkedin_id})
PersonaLiGet(p) ==
  LET proc == procs[p]
  IN  /\ proc.handler = "persona" /\ proc.pc = "li"
      /\ \E li_res \in {GetRaised,
                        GetResponse(linkedinTable,
                                    proc.loc.inputs.interviewer_linkedin_id)} :
           Step(p, PersonaAfterInterviewer(
                     [proc EXCEPT !.loc.li_res = li_res,
                                  !.calls.cache_get = @ + 1,
                                  !.raised = IF li_res.kind = "raise"
                                             THEN @ \cup {"li_get"} ELSE @],
                     InterviewerContext(li_res)))
      /\ UNCHANGED <<cfg, tables, hist, fetch>>

\* line 133: co_table.get_item(Key={"company_url": company_url})
PersonaCoGet(p) ==
  LET proc == procs[p]
  IN  /\ proc.handler = "persona" /\ proc.pc = "co"
      /\ \E co_res \in {GetRaised,
                        GetResponse(companyTable, proc.loc.inputs.company_url)} :
           Step(p, PersonaBuilt(
                     [proc EXCEPT !.loc.co_res = co_res,
                                  !.calls.cache_get = @ + 1,
                                  !.raised = IF co_res.kind = "raise"
                                             THEN @ \cup {"co_get"} ELSE @],
                     CompanyContext(co_res)))
      /\ UNCHANGED <<cfg, tables, hist, fetch>>

\* lines 334-353: persona_table.update_item
PersonaUpdate(p) ==
  LET proc == procs[p]
  IN  /\ proc.handler = "persona" /\ proc.pc = "update"
      /\ \E outcome \in {"ok", "raise"}, t \in Times :
           /\ outcome = "raise" => t = 1
           /\ personaTable' =
                PersonaUpdateItem(personaTable, proc.loc.inputs.session_id,
                                  proc.loc.base_context, p, outcome, t)
           /\ Step(p, PersonaSaved(proc, outcome, t))
      /\ UNCHANGED <<cfg, companyTable, linkedinTable, hist, fetch>>

---------------------------------------------------------------------------
(* Post-interview insight *)

\* update_item "SET insights = :i, analysis_status = :s, updated_at = :t"
SaveInsights(table, sid, t) ==
  PutItem(table, sid,
          [ItemOrBlank(table, sid) EXCEPT !.insights = "insights",
                                          !.analysis_status = "COMPLETED",
                                          !.updated_at = t])

\* lines 21-52: from the first statement to the first call (the OpenAI key
\* and the bucket name are set)
InsightEntry(proc) ==
  IF ~cfg.persona_table
  THEN Ends(proc, "config",
            Result(500, "{\"error\": \"Configuration missing: OPENAI_API_KEY, TRANSCRIPT_BUCKET_NAME, or PERSONA_TABLE_NAME\"}"))
  ELSE IF proc.event.session_id = ""
  THEN Ends(proc, "bad_request",
            Result(400, "{\"error\": \"session_id is required. Could not extract from S3 event.\"}"))
  ELSE [proc EXCEPT !.pc = "read"]

\* lines 54-71 and 130-143: after s3.get_object raised or returned; the text
\* of an exception is the name of the call that raised it
InsightRead(proc, s3) ==
  LET asked == [proc EXCEPT !.loc.s3 = s3]
  IN  IF s3 = "no_such_key"
      THEN Ends(asked, "not_found",
                Result(404, "{\"error\": \"Transcript for session "
                              \o proc.event.session_id \o " not found in S3\"}"))
      ELSE IF s3 = "raise"
      THEN Ends([asked EXCEPT !.raised = @ \cup {"insight"}], "failed",
                Result(500, "{\"error\": \"insight\"}"))
      ELSE [asked EXCEPT !.pc = "analyse"]

\* lines 92-105 and 136-143: after the OpenAI request raised or returned
InsightAnalysed(proc, openai) ==
  LET asked == [proc EXCEPT !.loc.openai = openai, !.calls.llm = 1]
  IN  IF openai = "raise"
      THEN Ends([asked EXCEPT !.raised = @ \cup {"insight"}], "failed",
                Result(500, "{\"error\": \"insight\"}"))
      ELSE [asked EXCEPT !.pc = "update"]

\* lines 110-143: after update_item raised or returned; the insights OpenAI
\* returns are {"summary": "ok", "score": 7}
InsightSaved(proc, outcome, t) ==
  LET saved == [proc EXCEPT !.loc.write = outcome,
                            !.loc.updated_at = IF outcome = "ok" THEN t ELSE 0,
                            !.calls.session_update = 1,
                            !.raised = IF outcome = "raise"
                                       THEN @ \cup {"session_update"} ELSE @]
  IN  IF outcome = "raise"
      THEN Ends(saved, "failed", Result(500, "{\"error\": \"session_update\"}"))
      ELSE Ends(saved, "insights",
                Result(200, "{\"message\": \"Insights generated successfully\", \"session_id\": \""
                              \o proc.event.session_id
                              \o "\", \"insights\": {\"summary\": \"ok\", \"score\": 7}}"))

\* post_interview_insight lambda_handler is invoked
InsightStart(p, events) ==
  /\ CanStart(p)
  /\ \E event \in events : Step(p, InsightEntry(NewInvocation("insight", event)))
  /\ UNCHANGED <<cfg, tables, hist, fetch>>

\* line 59: s3.get_object
InsightGetObject(p) ==
  LET proc == procs[p]
  IN  /\ proc.handler = "insight" /\ proc.pc = "read"
      /\ \E s3 \in {"ok", "no_such_key", "raise"} : Step(p, InsightRead(proc, s3))
      /\ UNCHANGED <<cfg, tables, hist, fetch>>

\* lines 92-103: requests.post to OpenAI
InsightAnalyse(p) ==
  LET proc == procs[p]
  IN  /\ proc.handler = "insight" /\ proc.pc = "analyse"
      /\ \E openai \in {"ok", "raise"} : Step(p, InsightAnalysed(proc, openai))
      /\ UNCHANGED <<cfg, tables, hist, fetch>>

\* lines 110-118: table.update_item
InsightUpdate(p) ==
  LET proc == procs[p]
  IN  /\ proc.handler = "insight" /\ proc.pc = "update"
      /\ \E outcome \in {"ok", "raise"}, t \in Times :
           /\ outcome = "raise" => t = 1
           /\ personaTable' =
                IF outcome = "ok"
                THEN SaveInsights(personaTable, proc.event.session_id, t)
                ELSE personaTable
           /\ Step(p, InsightSaved(proc, outcome, t))
      /\ UNCHANGED <<cfg, companyTable, linkedinTable, hist, fetch>>

---------------------------------------------------------------------------
(* Specifications *)

FullConfig ==
  [api_key |-> TRUE, company_table |-> TRUE, persona_table |-> TRUE,
   linkedin_table |-> TRUE]

\* the deployment's environment: PARALLEL_AI_API_KEY may be unset (mock data)
Configs == {FullConfig, [FullConfig EXCEPT !.api_key = FALSE]}

\* a deployment with one of the three table names unset
TableUnsetConfigs ==
  {[FullConfig EXCEPT ![name] = FALSE] :
     name \in {"company_table", "persona_table", "linkedin_table"}}

\* history: for each session, the invocation whose link was applied last
NoHistory == [link |-> [sid \in SessionIds \ {""} |-> 0]]

NoFetch == [handler |-> "none"]

\* the tables before any research: the session s1 created by intake
EmptyTables ==
  /\ companyTable = <<>>
  /\ linkedinTable = <<>>
  /\ personaTable = [s \in IntakeSessions |-> IntakeItem]

\* no handler has been invoked
Idle ==
  /\ procs = [p \in Procs |-> NoInvocation]
  /\ hist = NoHistory
  /\ fetch = NoFetch

\* process 1 is the invocation under study and draws its request from the
\* wide set; the invocations around it draw theirs from the narrow one
Drawn(p, wide, narrow) == IF p = 1 THEN wide ELSE narrow

DictEvent(session_id, linkedin_id, company_url) ==
  [shape |-> "dict", items |-> <<PersonaItem(TRUE, session_id, linkedin_id, company_url)>>]

CoreCompanyEvent == [company_url |-> UrlAcme, company_name |-> <<>>, session_id |-> "s1"]
NameOnlyEvent == [company_url |-> <<>>, company_name |-> NameAB, session_id |-> "s1"]
CoreInterviewerEvent ==
  [interviewer_name |-> "", company_name |-> "", interviewer_company |-> "",
   interviewer_linkedin_url |-> LiUrlJd, session_id |-> "s1"]

(* The pipeline: all four handlers, their invocations overlapping freely *)

PipelineCompanyEvents ==
  [company_url : {<<>>, UrlAcme}, company_name : {NameAB}, session_id : {"s1", "s2"}]
PipelineTasks == {TaskOk, [create |-> "ok", delay |-> 0, final |-> "empty"]}
PipelineInterviewerEvents ==
  [interviewer_name : {""}, company_name : {""}, interviewer_company : {""},
   interviewer_linkedin_url : {<<>>, LiUrlJd}, session_id : {"s1"}]
  \cup
  [interviewer_name : {"Jane Doe"}, company_name : {"Tech Corp"},
   interviewer_company : {""}, interviewer_linkedin_url : {<<>>},
   session_id : {"s1"}]
PipelineProfiles ==
  {ProfileOk, [ProfileOk EXCEPT !.final = HttpResponse(200, EmptyList)],
   [ProfileOk EXCEPT !.final = HttpResponse(404, "not found")]}
PipelinePersonaEvents ==
  {DictEvent(sid, id, url) : sid \in {"s1", "s2"}, id \in {<<>>, HandleJd},
                             url \in {<<>>, UrlAcme}}
PipelineInsightEvents == [kind : {"s3"}, session_id : {"s1", "s2"}]

\* the requests of the invocations around the one under study
NeighbourCompanyEvents == {CoreCompanyEvent, NameOnlyEvent}
NeighbourPersonaEvents == {DictEvent(sid, <<>>, UrlAcme) : sid \in {"s1", "s2"}}
NeighbourInsightEvents == [kind : {"s3"}, session_id : {"s1"}]

Init ==
  /\ cfg = FullConfig
  /\ EmptyTables
  /\ Idle

Next ==
  \E p \in Procs :
    \/ CompanyStart(p, Drawn(p, PipelineCompanyEvents, NeighbourCompanyEvents))
    \/ CompanyGet(p)
    \/ CompanyCreate(p, PipelineTasks)
    \/ CompanyPoll(p)
    \/ CompanyPut(p)
    \/ CompanyLink(p)
    \/ InterviewerStart(p, Drawn(p, PipelineInterviewerEvents, {CoreInterviewerEvent}))
    \/ InterviewerSearch(p)
    \/ InterviewerGet(p)
    \/ InterviewerRequest(p, PipelineProfiles)
    \/ InterviewerGenerate(p)
    \/ InterviewerPut(p)
    \/ PersonaStart(p, Drawn(p, PipelinePersonaEvents, NeighbourPersonaEvents))
    \/ PersonaSessionGet(p)
    \/ PersonaLiGet(p)
    \/ PersonaCoGet(p)
    \/ PersonaUpdate(p)
    \/ InsightStart(p, Drawn(p, PipelineInsightEvents, NeighbourInsightEvents))
    \/ InsightGetObject(p)
    \/ InsightAnalyse(p)
    \/ InsightUpdate(p)
    \/ Return(p)

Spec == Init /\ [][Next]_vars

(* Company research alone, over every request and provider behaviour *)

InitCompany ==
  /\ cfg \in Configs
  /\ EmptyTables
  /\ Idle

\* any provider behaviour for the core request of the invocation under study,
\* a provider that answers at once or never for the others
CompanyTasks(p) ==
  IF p = 1 /\ procs[p].event = CoreCompanyEvent THEN TaskBehaviours ELSE PipelineTasks

NextCompany ==
  \E p \in Procs :
    \/ CompanyStart(p, Drawn(p, CompanyEvents, NeighbourCompanyEvents))
    \/ CompanyGet(p)
    \/ CompanyCreate(p, CompanyTasks(p))
    \/ CompanyPoll(p)
    \/ CompanyPut(p)
    \/ CompanyLink(p)
    \/ Return(p)

SpecCompany == InitCompany /\ [][NextCompany]_vars

(* fetch_linkedin_profile alone, request by request, over every provider
   behaviour *)

InitFetch ==
  /\ cfg = FullConfig
  /\ EmptyTables
  /\ procs = [p \in Procs |-> NoInvocation]
  /\ hist = NoHistory
  /\ \E profile \in ProfileBehaviours :
       fetch = [handler |-> "fetch_input", profile |-> profile,
                fetched |-> [NoFetched EXCEPT !.profile = profile]]

\* one pass of the loop of fetch_linkedin_profile: a request, then a return or
\* a sleep
FetchStep ==
  /\ fetch.handler \in {"fetch_input", "fetching"}
  /\ LET fetched == fetch_linkedin_profile(fetch.fetched)
     IN  fetch' = [fetch EXCEPT !.fetched = fetched,
                                !.handler = IF fetched.returned THEN "fetch"
                                            ELSE "fetching"]
  /\ UNCHANGED <<cfg, tables, procs, hist>>

SpecFetch == InitFetch /\ [][FetchStep]_vars

(* Interviewer research alone *)

\* the provider behaviours that end at the first, last or no attempt
EdgeProfiles ==
  {p \in ProfileBehaviours : /\ p.delay \in {0, max_attempts - 1, max_attempts}
                             /\ p.delay = 0 => p.pre = HttpTimeout}

\* any profile API behaviour for the core request of the invocation under
\* study, one that answers at once for the others
InterviewerProfiles(p) ==
  IF p = 1 /\ procs[p].event = CoreInterviewerEvent THEN EdgeProfiles
  ELSE PipelineProfiles

NextInterviewer ==
  \E p \in Procs :
    \/ InterviewerStart(p, Drawn(p, InterviewerEvents, {CoreInterviewerEvent}))
    \/ InterviewerSearch(p)
    \/ InterviewerGet(p)
    \/ InterviewerRequest(p, InterviewerProfiles(p))
    \/ InterviewerGenerate(p)
    \/ InterviewerPut(p)
    \/ Return(p)

SpecInterviewer == Init /\ [][NextInterviewer]_vars

(* The persona generator alone, over tables as the research handlers leave them *)

\* a company record as company research stores it for the provider output
SeedCompany(output) ==
  PutItem(<<>>, UrlAcme,
          [data |-> SaveData(Normalize(output)), updated_at |-> StatusText(1)])

\* a LinkedIn record as interviewer research stores it for the fetched data
SeedLinkedin(data, llm) ==
  PutItem(<<>>, HandleJd,
          [data |-> data, persona_profile |-> generate_persona_profile(data, llm),
           updated_at |-> 1])

\* the session s1 of intake, as it is and linked to the company record
SessionsIntake == [s \in IntakeSessions |-> IntakeItem]
SessionsLinked == LinkCompany(SessionsIntake, "s1", UrlAcme)

\* the three tables after research: nothing stored; both records stored and
\* the session linked, a second session created by a link; a company record
\* holding a number; and the LinkedIn records of the payloads that
\* interviewer research stores without a generated profile
SeedTables ==
  {<<<<>>, <<>>, SessionsIntake>>,
   <<SeedCompany(OutJsonDict), SeedLinkedin(LiProfileList, "ok"),
     LinkCompany(SessionsLinked, "s2", UrlAcme)>>,
   <<SeedCompany(OutJsonNumber), <<>>, SessionsLinked>>,
   <<SeedCompany(OutOpaque), SeedLinkedin(LiProfileList, "raise"), SessionsLinked>>,
   <<<<>>, SeedLinkedin(LiProfileBare, "raise"), SessionsIntake>>,
   <<<<>>, SeedLinkedin(LiProfileCounted, "ok"), SessionsIntake>>,
   <<<<>>, SeedLinkedin(EmptyList, "none"), SessionsIntake>>,
   <<<<>>, SeedLinkedin(NoneV, "none"), SessionsIntake>>}

InitPersona ==
  /\ cfg = FullConfig
  /\ \E seed \in SeedTables :
       /\ companyTable = seed[1]
       /\ linkedinTable = seed[2]
       /\ personaTable = seed[3]
  /\ Idle

\* elements of a list event: earlier stages' results, and one that is no dict
ListItems ==
  {PersonaItem(TRUE, "s1", HandleJd, <<>>), PersonaItem(TRUE, "s1", <<>>, UrlAcme),
   PersonaItem(TRUE, "s1", <<>>, <<>>), PersonaItem(TRUE, "s2", <<>>, <<>>),
   PersonaItem(TRUE, "", <<>>, <<>>),
   PersonaItem(FALSE, "", <<>>, <<>>)}

\* the sequences over S of length 1..n
SeqsUpTo(S, n) == UNION {[1..k -> S] : k \in 1..n}

\* a request object with any session_id and keys
PersonaDictEvents ==
  {DictEvent(sid, id, url) : sid \in SessionIds, id \in {<<>>, HandleJd},
                             url \in {<<>>, UrlAcme}}
\* the list a parallel state hands over
PersonaListEvents ==
  {[shape |-> "list", items |-> items] : items \in SeqsUpTo(ListItems, MaxListLen)}

\* the last non-empty value of a field among the dict elements of a
\* persona-generator event (a request object is its own single element)
LastGiven(event, field, none) ==
  LET given == {i \in 1..Len(event.items) :
                  event.items[i].is_dict /\ event.items[i][field] # none}
  IN  IF given = {} THEN none
      ELSE event.items[CHOOSE i \in given : \A j \in given : j <= i][field]

\* the request object carrying, for each field, the last non-empty value of
\* that field among the dict elements of the list
EquivalentRequest(event) ==
  DictEvent(LastGiven(event, "session_id", ""),
            LastGiven(event, "interviewer_linkedin_id", <<>>),
            LastGiven(event, "company_url", <<>>))

\* the invocation under study is given a request of either shape; the others
\* are given the same request as a single object
PersonaEvents(p) ==
  IF p = 1 THEN PersonaDictEvents \cup PersonaListEvents
  ELSE IF procs[1].handler = "persona" THEN {EquivalentRequest(procs[1].event)}
  ELSE {}

NextPersona ==
  \E p \in Procs :
    \/ PersonaStart(p, PersonaEvents(p))
    \/ PersonaSessionGet(p)
    \/ PersonaLiGet(p)
    \/ PersonaCoGet(p)
    \/ PersonaUpdate(p)
    \/ Return(p)

SpecPersona == InitPersona /\ [][NextPersona]_vars

(* The three pipeline handlers with one of the table names unset *)

InitConfig ==
  /\ cfg \in TableUnsetConfigs
  /\ EmptyTables
  /\ Idle

NextConfig ==
  \E p \in Procs :
    \/ CompanyStart(p, Drawn(p, CompanyEvents, {CoreCompanyEvent}))
    \/ CompanyGet(p)
    \/ CompanyCreate(p, PipelineTasks)
    \/ CompanyPoll(p)
    \/ CompanyPut(p)
    \/ CompanyLink(p)
    \/ InterviewerStart(p, Drawn(p, InterviewerEvents, {CoreInterviewerEvent}))
    \/ InterviewerSearch(p)
    \/ InterviewerGet(p)
    \/ InterviewerRequest(p, PipelineProfiles)
    \/ InterviewerGenerate(p)
    \/ InterviewerPut(p)
    \/ PersonaStart(p, Drawn(p, PersonaDictEvents \cup PersonaListEvents,
                                {DictEvent("s1", <<>>, UrlAcme)}))
    \/ Return(p)

SpecConfig == InitConfig /\ [][NextConfig]_vars

(* The two research handlers, their invocations overlapping on one key *)

ConcurrentCompanyEvents == {CoreCompanyEvent, NameOnlyEvent}
ConcurrentInterviewerEvents ==
  {CoreInterviewerEvent,
   [CoreInterviewerEvent EXCEPT !.interviewer_linkedin_url = LiUrlJdQuery]}
ConcurrentTasks ==
  {TaskOk, [TaskOk EXCEPT !.final = OutOpaque], [TaskOk EXCEPT !.final = "empty"]}
ConcurrentProfiles ==
  PipelineProfiles \cup {[ProfileOk EXCEPT !.final = HttpResponse(200, LiProfile)]}

NextConcurrent ==
  \E p \in Procs :
    \/ CompanyStart(p, ConcurrentCompanyEvents)
    \/ CompanyGet(p)
    \/ CompanyCreate(p, ConcurrentTasks)
    \/ CompanyPoll(p)
    \/ CompanyPut(p)
    \/ CompanyLink(p)
    \/ InterviewerStart(p, ConcurrentInterviewerEvents)
    \/ InterviewerGet(p)
    \/ InterviewerRequest(p, ConcurrentProfiles)
    \/ InterviewerGenerate(p)
    \/ InterviewerPut(p)
    \/ Return(p)

SpecConcurrent == InitCompany /\ [][NextConcurrent]_vars

---------------------------------------------------------------------------
(* Properties *)

Research == {"company", "interviewer"}

\* the invocation has reached its return statement, or has returned
Ended(p) == procs[p].pc \in {"return", "done"}

\* the invocation is returning to its caller now
AtReturn(p) == procs[p].pc = "return"

\* every other invocation had returned before p was invoked, or was not made
RunsAlone(p) ==
  \A q \in Procs \ {p} : procs[q].handler = "none" \/ q \in procs[p].after

\* a call of the invocation to one of the tables raised
StoreCallRaised(p) ==
  procs[p].raised
    \cap {"session_get", "li_get", "co_get", "session_update", "cache_get",
          "cache_put"} # {}

\* the session item holds the prompts that invocation p built
HoldsPromptsOf(item, p) ==
  /\ procs[p].loc.base_context # <<>>
  /\ item.prompt = Prompt(procs[p].loc.base_context, "introduction", p)
  /\ item.prompt_introduction = Prompt(procs[p].loc.base_context, "introduction", p)
  /\ item.prompt_technical = Prompt(procs[p].loc.base_context, "technical", p)
  /\ item.prompt_behavioral = Prompt(procs[p].loc.base_context, "behavioral", p)
  /\ item.prompt_conclusion = Prompt(procs[p].loc.base_context, "conclusion", p)

\* C1: of two company-research invocations in sequence with the same
\* company_url and no other invocation, the first having returned 200 and the
\* second's cache read not failing, the second takes the cache-hit path: no
\* task_run create, no result poll, no cache put, and it returns 200 with
\* that company_url.
C1_SecondCallHits ==
  \A p, q \in Procs :
    (/\ procs[p].handler = "company" /\ procs[q].handler = "company"
     /\ p \in procs[q].after
     /\ \A r \in Procs \ {p, q} : procs[r].handler = "none"
     /\ Truthy(procs[p].event.company_url)
     /\ procs[q].event.company_url = procs[p].event.company_url
     /\ procs[p].result.statusCode = 200
     /\ Ended(q)
     /\ procs[q].loc.cache_response.kind # "raise")
    => /\ procs[q].path = "hit"
       /\ procs[q].calls.task_create = 0
       /\ procs[q].calls.task_result = 0
       /\ procs[q].calls.cache_put = 0
       /\ procs[q].result.statusCode = 200
       /\ procs[q].result.company_url = procs[p].event.company_url

C3_NoExceptionEscapes ==
  \A p \in Procs :
    procs[p].handler \in {"company", "interviewer", "persona"}
      => ~procs[p].result.escaped

\* every request of the fetch is answered 202
AlwaysInProgress(profile) ==
  \A attempt \in 1..max_attempts :
    ProfileResponse(profile, attempt) = HttpResponse(202, "")

\* the fetch met a hard failure within its budget: an exception that is no
\* timeout, or a status that is neither 200 nor 202
HardFailureAt(profile, attempt) ==
  LET res == ProfileResponse(profile, attempt)
  IN  res.kind = "error" \/ (res.kind = "response" /\ res.code \notin {200, 202})

\* C4: fetch_linkedin_profile has never issued more than 15 requests, while
\* it waits between two attempts or when it has returned; when every request
\* is answered 202 it returns only after exactly 15, with
\* (None, "Timed out waiting for scrape"); a fetch that ends at a hard failure
\* returns a reason that is another one.
C4_PollTimeout ==
  /\ fetch.handler \in {"fetching", "fetch"} =>
       fetch.fetched.requests \in 1..max_attempts
  /\ fetch.handler = "fetch" =>
    /\ fetch.fetched.returned
    /\ AlwaysInProgress(fetch.profile) =>
         /\ fetch.fetched.requests = max_attempts
         /\ fetch.fetched.data = NoneV
         /\ fetch.fetched.err = TimeoutReason
    /\ HardFailureAt(fetch.profile, fetch.fetched.requests)
         /\ (\A a \in 1..(fetch.fetched.requests - 1) :
               ProfileResponse(fetch.profile, a) \in Retryable)
         => /\ fetch.fetched.data = NoneV
            /\ fetch.fetched.err # NoneV
            /\ fetch.fetched.err # TimeoutReason

\* C4 witness: the fetch of a provider that always answers 202 has returned
C4_Witness ==
  /\ fetch.handler = "fetch"
  /\ AlwaysInProgress(fetch.profile)
  /\ fetch.fetched.requests = max_attempts

\* no poll of the invocation's task returns an output within the budget
NoOutputInBudget(task) ==
  \A attempt \in 1..max_retries : TaskResult(task, attempt) \in {"empty", "raise"}

\* C5: a company-research invocation has never polled the task result more
\* than 30 times, whatever the provider does and whatever other invocations
\* do between its polls; when it asked the provider and no poll within the
\* 30 returns an output, it is still polling or it ends with the result 500
\* "Parallel AI Failure", the timeout failure only after exactly 30 polls,
\* and it makes no cache put and no session-link update.
C5_PollBudgetFatal ==
  \A p \in Procs :
    procs[p].handler = "company" =>
      /\ procs[p].calls.task_result <= max_retries
      /\ (procs[p].calls.task_create = 1 /\ NoOutputInBudget(procs[p].loc.task)) =>
           /\ procs[p].pc = "poll" \/ Ended(p)
           /\ Ended(p) =>
                /\ procs[p].result.statusCode = 500
                /\ procs[p].result = CompanyFailure("create failed")
                     \/ procs[p].result = CompanyFailure("result failed")
                     \/ procs[p].result = CompanyFailure("Parallel AI task timed out.")
                /\ procs[p].result = CompanyFailure("Parallel AI task timed out.")
                     => procs[p].calls.task_result = max_retries
           /\ procs[p].calls.cache_put = 0
           /\ procs[p].calls.session_update = 0
           /\ procs[p].loc.write = "none" /\ procs[p].loc.link = "none"

\* C5 witness: the provider gives its output only at the 31st poll; the
\* invocation polled 30 times and returned 500, while another invocation
\* stored its record between two of its polls
C5_Witness ==
  \E p, q \in Procs :
    /\ procs[p].handler = "company" /\ procs[q].handler = "company"
    /\ procs[p].loc.task.delay = max_retries
    /\ procs[p].loc.task.final = OutJsonDict
    /\ procs[p].calls.task_result = max_retries
    /\ procs[p].result = CompanyFailure("Parallel AI task timed out.")
    /\ procs[q].loc.write = "ok"
    /\ p \notin procs[q].after /\ q \notin procs[p].after

\* C6: no key under which a name-only request stored its record equals a key
\* read or written for a request that supplied a company_url.
C6_NoSharedKey ==
  \A p, q \in Procs :
    (/\ procs[p].handler = "company" /\ procs[q].handler = "company"
     /\ ~Truthy(procs[p].event.company_url)
     /\ Truthy(procs[p].event.company_name)
     /\ procs[p].loc.write = "ok"
     /\ Truthy(procs[q].event.company_url)
     /\ procs[q].calls.cache_get = 1)
    => ResolvedKey(procs[p].event) # procs[q].event.company_url

\* C7: no step of a persona-generator invocation changes the session table,
\* except its final update when it succeeds: whatever other invocations do
\* between its steps, an invocation whose final update fails leaves every
\* record as each of its steps found it (prompt fields, status and updated_at
\* included), and the step at which the update fails ends it with statusCode
\* 500 and no READY status.
C7_SaveFailureLeavesSession ==
  [][\A p \in Procs :
       (procs'[p].handler = "persona" /\ procs'[p] # procs[p]) =>
         /\ procs'[p].loc.write # "ok" => personaTable' = personaTable
         /\ procs'[p].loc.write = "raise" =>
              /\ Ended(p)'
              /\ procs'[p].result.statusCode = 500
              /\ procs'[p].result.status # "READY"]_vars

\* C7 witness: the session was made READY by one invocation; the update of a
\* later invocation on it failed, and the record still holds the prompts, the
\* status and the updated_at of the first
C7_Witness ==
  \E p, q \in Procs :
    /\ procs[p].handler = "persona" /\ procs[q].handler = "persona"
    /\ q \in procs[p].after
    /\ procs[q].loc.inputs.session_id = "s1"
    /\ procs[p].loc.inputs.session_id = "s1"
    /\ procs[q].loc.write = "ok"
    /\ procs[p].loc.write = "raise"
    /\ procs[p].result.statusCode = 500
    /\ HoldsPromptsOf(personaTable["s1"], q)
    /\ personaTable["s1"].status = "READY"
    /\ personaTable["s1"].updated_at = procs[q].loc.updated_at

\* C8: a persona-generator invocation for an existing session, with no
\* interviewer key in its input and no failing call to a table, returns READY
\* having persisted stage prompts that hold the generic persona "Alex Mercer"
\* and the profile built from its summary and headline.
C8_GenericPromptsForSession ==
  \A p \in Procs :
    (/\ procs[p].handler = "persona" /\ Ended(p)
     /\ procs[p].loc.inputs.session_id \in DOMAIN personaTable
     /\ ~Truthy(procs[p].loc.inputs.interviewer_linkedin_id)
     /\ ~StoreCallRaised(p))
    => /\ procs[p].result.status = "READY"
       /\ procs[p].loc.write = "ok"
       /\ \E i \in 1..Len(procs[p].loc.base_context) :
            procs[p].loc.base_context[i] = Dumps(GenericPersona)
       /\ \E i \in 1..Len(procs[p].loc.base_context) :
            procs[p].loc.base_context[i] = FallbackProfile(GenericPersona)

\* C9: a persona-generator invocation with no failing call to a table, for a
\* session with job description J whose record is linked to a company record
\* with data D, and for an interviewer record with a non-empty stored persona
\* profile P, returns READY having persisted stage prompts whose base context
\* holds J, the serialized D and P.
C9_FullPromptsForLinkedSession ==
  \A p \in Procs :
    LET sid == procs[p].loc.inputs.session_id
        handle == procs[p].loc.inputs.interviewer_linkedin_id
        base_context == procs[p].loc.base_context
    IN  (/\ procs[p].handler = "persona" /\ Ended(p)
         /\ sid \in DOMAIN personaTable
         /\ personaTable[sid].company_url \in DOMAIN companyTable
         /\ handle \in DOMAIN linkedinTable
         /\ TruthyText(linkedinTable[handle].persona_profile)
         /\ ~StoreCallRaised(p))
        => /\ procs[p].result.status = "READY"
           /\ procs[p].loc.write = "ok"
           /\ \E i \in 1..Len(base_context) :
                base_context[i] = personaTable[sid].job_description
           /\ \E i \in 1..Len(base_context) :
                base_context[i] = Dumps(companyTable[personaTable[sid].company_url].data)
           /\ \E i \in 1..Len(base_context) :
                base_context[i] = linkedinTable[handle].persona_profile

\* C10: with the interviewer table configured, every interviewer-research
\* invocation returns statusCode 200 with status SKIPPED, FAILED_OPTIONAL or
\* SUCCESS; when the search finds no URL, when the URL has no handle, or when
\* the profile fetch reports a failure (None, reason), the status is
\* FAILED_OPTIONAL and no cache put is made.
C10_InterviewerNeverFails ==
  \A p \in Procs :
    (procs[p].handler = "interviewer" /\ Ended(p) /\ cfg.linkedin_table) =>
      /\ procs[p].result.statusCode = 200
      /\ procs[p].result.status \in {"SKIPPED", "FAILED_OPTIONAL", "SUCCESS"}
      /\ (\/ procs[p].calls.search = 1
               /\ ~Truthy(find_linkedin_url(procs[p].loc.search))
          \/ Truthy(procs[p].loc.linkedin_url)
               /\ ~Truthy(extract_linkedin_id(procs[p].loc.linkedin_url))
          \/ procs[p].loc.fetched.err # NoneV)
         => /\ procs[p].result.status = "FAILED_OPTIONAL"
            /\ procs[p].calls.cache_put = 0

\* the request gives no LinkedIn URL and not both a name and a company
NoInterviewerDetails(event) ==
  /\ ~Truthy(event.interviewer_linkedin_url)
  /\ ~(event.interviewer_name # ""
         /\ (event.company_name # "" \/ event.interviewer_company # ""))

\* C11: an interviewer-research invocation whose request has no
\* interviewer_linkedin_url and not both a name and a company returns
\* statusCode 200 with status SKIPPED at once: it makes no profile search, no
\* cache read, no profile fetch, no persona-profile generation and no cache
\* write, whatever other invocations do meanwhile.
C11_SkippedWithoutCalls ==
  \A p \in Procs :
    (/\ procs[p].handler = "interviewer"
     /\ cfg.linkedin_table
     /\ NoInterviewerDetails(procs[p].event))
    => /\ Ended(p)
       /\ procs[p].result.statusCode = 200
       /\ procs[p].result.status = "SKIPPED"
       /\ procs[p].result.session_id = procs[p].event.session_id
       /\ procs[p].calls = NoCalls
       /\ procs[p].raised = {}
       /\ procs[p].loc.write = "none"

\* C11 witness: a request with a name but no company was skipped, while
\* another invocation fetched and stored a profile
C11_Witness ==
  \E p, q \in Procs :
    /\ procs[p].handler = "interviewer" /\ procs[q].handler = "interviewer"
    /\ procs[p].event.interviewer_name = "Jane Doe"
    /\ NoInterviewerDetails(procs[p].event)
    /\ procs[p].result.status = "SKIPPED"
    /\ procs[q].loc.write = "ok"
    /\ HandleJd \in DOMAIN linkedinTable

\* C12: every company-research invocation whose request supplies a
\* company_url or a company_name returns a result carrying the request's
\* session_id and the resolved company key (the company_url, or the
\* name-derived fallback key), whatever the cache, the provider and the
\* session store do.
C12_ResultCarriesSessionAndKey ==
  \A p \in Procs :
    (/\ procs[p].handler = "company" /\ Ended(p)
     /\ Truthy(procs[p].event.company_url) \/ Truthy(procs[p].event.company_name))
    => /\ procs[p].result.session_id = procs[p].event.session_id
       /\ procs[p].result.company_url = ResolvedKey(procs[p].event)

\* C13: a persona-generator invocation from whose input no session_id can be
\* extracted returns 400 without any call to a table; one whose session_id has
\* no record in the session table returns 404 and writes nothing.
C13_InputErrors ==
  \A p \in Procs :
    (procs[p].handler = "persona" /\ Ended(p)) =>
      /\ procs[p].loc.inputs.session_id = "" =>
           /\ procs[p].result.statusCode = 400
           /\ procs[p].calls = NoCalls
      /\ (/\ procs[p].loc.inputs.session_id # ""
          /\ procs[p].loc.inputs.session_id \notin DOMAIN personaTable) =>
           /\ procs[p].result.statusCode = 404
           /\ procs[p].calls.session_update = 0

\* the calls of the two invocations had the same outcomes
SamePersonaOutcomes(p, q) ==
  /\ procs[p].loc.session_res.kind = procs[q].loc.session_res.kind
  /\ procs[p].loc.li_res.kind = procs[q].loc.li_res.kind
  /\ procs[p].loc.co_res.kind = procs[q].loc.co_res.kind
  /\ procs[p].loc.write = procs[q].loc.write
  /\ procs[p].loc.updated_at = procs[q].loc.updated_at

\* C14: a persona-generator invocation given a list extracts from it the
\* session_id, interviewer_linkedin_id and company_url of the request object
\* that carries, for each field, the last non-empty value among the list's
\* dict elements; and it ends as an invocation given that request object
\* whose calls have the same outcomes: the same result, the same calls, and
\* the same prompts and updated_at written to the same session.
C14_ListLikeRequestObject ==
  /\ \A p \in Procs :
       (procs[p].handler = "persona" /\ procs[p].event.shape = "list") =>
         procs[p].loc.inputs = ExtractInputs(EquivalentRequest(procs[p].event))
  /\ \A p, q \in Procs :
       (/\ procs[p].handler = "persona" /\ procs[q].handler = "persona"
        /\ procs[p].event.shape = "list"
        /\ procs[q].event = EquivalentRequest(procs[p].event)
        /\ Ended(p) /\ Ended(q)
        /\ SamePersonaOutcomes(p, q))
       => /\ procs[q].result = procs[p].result
          /\ procs[q].path = procs[p].path
          /\ procs[q].calls = procs[p].calls
          /\ procs[q].raised = procs[p].raised
          /\ procs[q].loc.inputs = procs[p].loc.inputs
          /\ procs[q].loc.base_context = procs[p].loc.base_context

\* C14 witness: a list whose second element overrides the session_id of the
\* first and carries the company_url, and the request object equivalent to
\* it, have both ended READY with the same prompts
C14_Witness ==
  \E p, q \in Procs :
    /\ procs[p].handler = "persona" /\ procs[q].handler = "persona"
    /\ procs[p].event.shape = "list"
    /\ Len(procs[p].event.items) = 2
    /\ procs[p].event.items[1].session_id = "s2"
    /\ procs[p].event.items[2].session_id = "s1"
    /\ procs[p].event.items[2].company_url = UrlAcme
    /\ procs[q].event = DictEvent("s1", <<>>, UrlAcme)
    /\ procs[p].result.status = "READY"
    /\ procs[q].result.status = "READY"
    /\ procs[p].loc.base_context = procs[q].loc.base_context

\* the calls of the two research invocations after the cache read had the
\* same outcomes
SameResearchOutcomes(p, q) ==
  /\ procs[p].loc.task = procs[q].loc.task
  /\ procs[p].loc.fetched = procs[q].loc.fetched
  /\ procs[p].loc.llm = procs[q].loc.llm
  /\ procs[p].loc.write = procs[q].loc.write
  /\ procs[p].loc.updated_at = procs[q].loc.updated_at
  /\ procs[p].loc.link = procs[q].loc.link

EndingAttempts(profile) ==
  {a \in 1..max_attempts : ProfileResponse(profile, a) \notin Retryable}

\* the first such attempt
FirstEnding(profile) ==
  CHOOSE a \in EndingAttempts(profile) : \A b \in EndingAttempts(profile) : a <= b

\* the fetch ended at its first response that is neither a 202 nor a timeout,
\* with a failure (None, reason) when that response is a hard failure
EndsAtFirstEnding ==
  LET res == ProfileResponse(fetch.profile, FirstEnding(fetch.profile))
  IN  /\ fetch.fetched.requests = FirstEnding(fetch.profile)
      /\ HardFailureAt(fetch.profile, FirstEnding(fetch.profile)) =>
           /\ fetch.fetched.data = NoneV
           /\ fetch.fetched.err # NoneV
           /\ fetch.fetched.err # TimeoutReason
           /\ res.kind = "response" =>
                fetch.fetched.err = StatusText(res.code) \o ": " \o res.body
           /\ res.kind = "error" => fetch.fetched.err = res.body

\* C16 as stated: the fetch ends at the first response that is neither a 202
\* nor a timeout: a hard failure gives (None, reason), a 200 response gives
\* (payload, None); with only 202 responses and timeouts every attempt is used.
C16_EndsAtFirstAnswer ==
  fetch.handler = "fetch" =>
    IF EndingAttempts(fetch.profile) = {}
    THEN fetch.fetched.requests = max_attempts /\ fetch.fetched.err = TimeoutReason
    ELSE LET res == ProfileResponse(fetch.profile, FirstEnding(fetch.profile))
         IN  /\ EndsAtFirstEnding
             /\ (res.kind = "response" /\ res.code = 200) =>
                  fetch.fetched.data = res.body /\ fetch.fetched.err = NoneV

\* C16 amended: the same, except that a 200 response gives (payload, None) only
\* when its body parses as JSON; a 200 response whose body does not parse ends
\* the loop at that attempt with (None, the parse error).
C16_EndsAtFirstAnswerParsed ==
  fetch.handler = "fetch" =>
    IF EndingAttempts(fetch.profile) = {}
    THEN /\ fetch.fetched.requests = max_attempts
         /\ fetch.fetched.data = NoneV /\ fetch.fetched.err = TimeoutReason
    ELSE LET res == ProfileResponse(fetch.profile, FirstEnding(fetch.profile))
         IN  /\ EndsAtFirstEnding
             /\ (res.kind = "response" /\ res.code = 200 /\ res.body # BodyNotJson) =>
                  fetch.fetched.data = res.body /\ fetch.fetched.err = NoneV
             /\ (res.kind = "response" /\ res.code = 200 /\ res.body = BodyNotJson) =>
                  /\ fetch.fetched.data = NoneV
                  /\ TruthyText(fetch.fetched.err)
                  /\ fetch.fetched.err # TimeoutReason

\* C16 witness: a hard failure at the last attempt, after 202 responses
C16_Witness ==
  /\ fetch.handler = "fetch"
  /\ fetch.profile.pre = HttpResponse(202, "")
  /\ fetch.profile.delay = max_attempts - 1
  /\ fetch.profile.final = HttpResponse(404, "not found")
  /\ fetch.fetched.requests = max_attempts
  /\ fetch.fetched.err = "404: not found"

\* a required table name of the invocation's handler is unset
RequiredTableUnset(p) ==
  \/ procs[p].handler = "company" /\ ~cfg.company_table
  \/ procs[p].handler = "interviewer" /\ ~cfg.linkedin_table
  \/ procs[p].handler = "persona"
       /\ ~(cfg.persona_table /\ cfg.company_table /\ cfg.linkedin_table)

\* C17: an invocation of company research, interviewer research or the
\* persona generator with a required table name unset returns statusCode 500
\* at once, whatever its request holds: it makes no call to a table or to a
\* provider, and no call of it raises.
C17_ConfigErrorBeforeAnyCall ==
  \A p \in Procs :
    RequiredTableUnset(p) =>
      /\ Ended(p)
      /\ procs[p].path = "config"
      /\ procs[p].result.statusCode = 500
      /\ ~procs[p].result.escaped
      /\ procs[p].calls = NoCalls
      /\ procs[p].raised = {}
      /\ procs[p].loc.write = "none" /\ procs[p].loc.link = "none"

\* C17 witness: with COMPANY_TABLE_NAME unset, a company request that holds
\* neither a URL nor a name got 500, while an interviewer-research invocation
\* stored its record
C17_Witness ==
  \E p, q \in Procs :
    /\ ~cfg.company_table
    /\ procs[p].handler = "company"
    /\ ~Truthy(procs[p].event.company_url) /\ ~Truthy(procs[p].event.company_name)
    /\ procs[p].result.statusCode = 500
    /\ procs[p].calls = NoCalls
    /\ procs[q].handler = "interviewer"
    /\ procs[q].loc.write = "ok"

\* C18: whenever company research obtains a non-empty provider output, the
\* company_data that normalization makes of it is a dictionary, whatever the
\* output is: a typed object, a string of valid JSON of any JSON type, or any
\* other string or object.
C18_NormalizedIsDictionary ==
  \A p \in Procs :
    (/\ procs[p].handler = "company"
     /\ procs[p].calls.task_create = 1
     /\ procs[p].loc.raw_output # "")
    => IsCompanyDict(procs[p].loc.company_data)

\* C19: when a persona-generator invocation that ran after every other
\* invocation had returned ends READY, the company context and the
\* interviewer context of its prompts are those of the company_url and
\* interviewer_linkedin_id stored on that session record: the empty company
\* context when the record carries no company key, the generic interviewer
\* when it carries no interviewer key.
C19_ContextFromSessionKeys ==
  \A p \in Procs :
    (/\ procs[p].handler = "persona" /\ AtReturn(p) /\ RunsAlone(p)
     /\ procs[p].path = "ready")
    => LET item == personaTable[procs[p].loc.inputs.session_id]
       IN  /\ procs[p].loc.company_research =
                IF item.company_url \in DOMAIN companyTable
                THEN companyTable[item.company_url].data ELSE EmptyDict
           /\ procs[p].loc.interviewer_research =
                IF item.interviewer_linkedin_id \in DOMAIN linkedinTable
                THEN InterviewerContext(
                       GetResponse(linkedinTable, item.interviewer_linkedin_id)).research
                ELSE GenericPersona

\* C20: when an interviewer-research invocation that carries a session_id
\* returns with status SUCCESS, the session record of that session_id holds
\* the LinkedIn handle of the result as its interviewer_linkedin_id.
C20_InterviewerLinked ==
  \A p \in Procs :
    (/\ procs[p].handler = "interviewer" /\ AtReturn(p)
     /\ procs[p].result.status = "SUCCESS"
     /\ procs[p].event.session_id # "")
    => /\ procs[p].event.session_id \in DOMAIN personaTable
       /\ personaTable[procs[p].event.session_id].interviewer_linkedin_id
            = procs[p].result.interviewer_linkedin_id

\* C21 amended: whenever a link update of company research on a session has
\* been applied, the session record's company_url is the key K of the
\* invocation whose link update on that session was applied last, which
\* returns statusCode 200 with K, on the cache-hit path and on the cache-miss
\* path alike; K has a record in the cache, and when K was freshly fetched
\* the invocation's cache put succeeded before it linked the session.
C21_SessionLinkedToLastLink ==
  \A sid \in DOMAIN hist.link :
    hist.link[sid] # 0 =>
      LET p == hist.link[sid]
      IN  /\ procs[p].handler = "company"
          /\ procs[p].event.session_id = sid
          /\ procs[p].loc.link = "ok"
          /\ Ended(p)
          /\ procs[p].result.statusCode = 200
          /\ sid \in DOMAIN personaTable
          /\ personaTable[sid].company_url = procs[p].result.company_url
          /\ procs[p].result.company_url = ResolvedKey(procs[p].event)
          /\ procs[p].result.company_url \in DOMAIN companyTable
          /\ procs[p].path \in {"hit", "miss"}
          /\ procs[p].path = "miss" => procs[p].loc.write = "ok"

\* C21 as stated: when a company-research invocation that carries a
\* session_id returns 200 with key K, its session-store update having
\* succeeded, the session record's company_url equals K.
C21_LinkedToReturnedKey ==
  \A p \in Procs :
    (/\ procs[p].handler = "company" /\ AtReturn(p)
     /\ procs[p].result.statusCode = 200
     /\ procs[p].loc.link = "ok")
    => personaTable[procs[p].event.session_id].company_url
         = procs[p].result.company_url

\* C21 witness: two overlapping invocations linked the session s1 to
\* different keys; the record holds the key of the link applied last, while
\* the other invocation returns its own key
C21_Witness ==
  \E p, q \in Procs :
    /\ procs[p].handler = "company" /\ procs[q].handler = "company"
    /\ procs[p].loc.link = "ok" /\ procs[q].loc.link = "ok"
    /\ procs[p].path = "miss" /\ procs[q].path = "miss"
    /\ hist.link["s1"] = q
    /\ AtReturn(p)
    /\ procs[p].result.company_url # procs[q].result.company_url
    /\ personaTable["s1"].company_url = procs[q].result.company_url

\* C22: of two name-only invocations in sequence with the same company_name,
\* the first having stored its record and returned 200, the second looks the
\* fallback key up in the cache, finds the record and performs no provider
\* call and no put.
C22_SecondNameOnlyHits ==
  \A p, q \in Procs :
    (/\ procs[p].handler = "company" /\ procs[q].handler = "company"
     /\ p \in procs[q].after
     /\ ~Truthy(procs[p].event.company_url) /\ ~Truthy(procs[q].event.company_url)
     /\ Truthy(procs[p].event.company_name)
     /\ procs[q].event.company_name = procs[p].event.company_name
     /\ procs[p].loc.write = "ok"
     /\ procs[p].result.statusCode = 200
     /\ Ended(q))
    => /\ procs[q].calls.cache_get = 1
       /\ procs[q].calls.task_create = 0 /\ procs[q].calls.task_result = 0
       /\ procs[q].calls.cache_put = 0
       /\ procs[q].result.statusCode = 200
       /\ procs[q].result.company_url = procs[p].result.company_url

\* the external fetch of the invocation returned a success payload
FetchSucceeded(p) ==
  IF procs[p].handler = "company"
  THEN /\ procs[p].calls.task_create = 1
       /\ procs[p].loc.raw_output # ""
  ELSE /\ procs[p].calls.profile_request >= 1
       /\ procs[p].loc.fetched.returned
       /\ procs[p].loc.fetched.err = NoneV
       /\ procs[p].loc.fetched.data # NoneV

\* C23: a research invocation performs a cache put only after its own
\* external fetch returned a success payload; an invocation whose fetch
\* failed, timed out or was not performed for lack of provider credentials
\* makes no put.
C23_PutOnlyAfterSuccessfulFetch ==
  \A p \in Procs :
    (procs[p].handler \in Research /\ ~FetchSucceeded(p))
      => procs[p].calls.cache_put = 0 /\ procs[p].loc.write = "none"

\* the external fetch of the invocation failed
FetchFailed(p) ==
  IF procs[p].handler = "company"
  THEN procs[p].calls.task_create = 1 /\ NoOutputInBudget(procs[p].loc.task)
  ELSE procs[p].loc.fetched.err # NoneV

\* the success result of a research invocation
SuccessResult(p) ==
  IF procs[p].handler = "company"
  THEN /\ procs[p].result.statusCode = 200
       /\ procs[p].result.session_id = procs[p].event.session_id
       /\ procs[p].result.company_url = ResolvedKey(procs[p].event)
  ELSE /\ procs[p].result.statusCode = 200
       /\ procs[p].result.status = "SUCCESS"
       /\ procs[p].result.session_id = procs[p].event.session_id
       /\ procs[p].result.interviewer_linkedin_id
            = extract_linkedin_id(procs[p].event.interviewer_linkedin_url)

\* C24: under every interleaving of research invocations on a cold cache,
\* whichever of their table calls fail, every invocation whose own external
\* fetch does not fail returns its success result; and in every reachable
\* state each record of the company cache and of the LinkedIn cache is the
\* whole item of one single successful put of one invocation for that key
\* (data, derived profile and updated_at of the same put).
C24_RecordFromOneWriter ==
  /\ \A p \in Procs :
       (procs[p].handler \in Research /\ Ended(p) /\ ~FetchFailed(p))
         => SuccessResult(p)
  /\ \A key \in DOMAIN companyTable :
       \E p \in Procs :
         /\ procs[p].handler = "company"
         /\ procs[p].loc.write = "ok"
         /\ ResolvedKey(procs[p].event) = key
         /\ companyTable[key] = CompanyItem(procs[p], procs[p].loc.updated_at)
  /\ \A key \in DOMAIN linkedinTable :
       \E p \in Procs :
         /\ procs[p].handler = "interviewer"
         /\ procs[p].loc.write = "ok"
         /\ procs[p].loc.linkedin_id = key
         /\ linkedinTable[key] = InterviewerItem(procs[p], procs[p].loc.updated_at)

\* C24 witness: two overlapping invocations for the same key both missed,
\* both fetched and both put, with different data and different updated_at;
\* both return success and the record is the item of one of them
C24_Witness ==
  \E p, q \in Procs :
    /\ procs[p].handler = "company" /\ procs[q].handler = "company"
    /\ procs[p].event = CoreCompanyEvent /\ procs[q].event = CoreCompanyEvent
    /\ p \notin procs[q].after /\ q \notin procs[p].after
    /\ procs[p].loc.cache_response.kind = "absent"
    /\ procs[q].loc.cache_response.kind = "absent"
    /\ procs[p].loc.write = "ok" /\ procs[q].loc.write = "ok"
    /\ procs[p].loc.company_data # procs[q].loc.company_data
    /\ procs[p].loc.updated_at # procs[q].loc.updated_at
    /\ Ended(p) /\ Ended(q)
    /\ SuccessResult(p) /\ SuccessResult(q)
    /\ companyTable[UrlAcme] = CompanyItem(procs[q], procs[q].loc.updated_at)

\* C25: under every interleaving of company-research links and
\* persona-generator updates on a session, with the other handlers running
\* too, once a link and a final update on the session have both been applied
\* the record holds the company_url linked last, the four prompts of one
\* persona-generator invocation with status READY, and the job_description and
\* resume_text that intake gave it.
C25_LinkAndPromptsKept ==
  \A sid \in DOMAIN hist.link :
    (/\ hist.link[sid] # 0
     /\ \E q \in Procs : /\ procs[q].handler = "persona"
                         /\ procs[q].loc.inputs.session_id = sid
                         /\ procs[q].loc.write = "ok")
    => /\ sid \in DOMAIN personaTable
       /\ personaTable[sid].company_url = LinkKey(procs[hist.link[sid]])
       /\ personaTable[sid].status = "READY"
       /\ \E r \in Procs : /\ procs[r].handler = "persona"
                           /\ procs[r].loc.write = "ok"
                           /\ HoldsPromptsOf(personaTable[sid], r)
       /\ personaTable[sid].job_description =
            IF sid \in IntakeSessions THEN IntakeItem.job_description ELSE Absent
       /\ personaTable[sid].resume_text =
            IF sid \in IntakeSessions THEN IntakeItem.resume_text ELSE Absent

\* C25 witness: the persona generator read the session s1 before company
\* research linked it, and both writes have been applied
C25_Witness ==
  \E p, q \in Procs :
    /\ procs[p].handler = "company" /\ procs[q].handler = "persona"
    /\ procs[p].event.session_id = "s1"
    /\ procs[q].loc.inputs.session_id = "s1"
    /\ procs[p].loc.link = "ok" /\ procs[q].loc.write = "ok"
    /\ ~Truthy(procs[q].loc.session_res.Item.company_url)
    /\ personaTable["s1"].company_url = UrlAcme
    /\ personaTable["s1"].status = "READY"

\* C26: the step at which a company-research invocation makes its link
\* update changes, when the update succeeds, only the company_url field of
\* the session record of its session_id, which becomes the resolved key:
\* every other field of that record, every other record and both caches stay
\* as they were, whatever other invocations did before; when the update
\* fails, no table changes; either way the invocation returns statusCode 200
\* with the resolved key, which has a record in the cache.
C26_LinkIsFieldScopedAndNonFatal ==
  [][\A p \in Procs :
       (/\ procs[p].handler = "company"
        /\ procs[p].pc = "link" /\ procs'[p].pc # "link") =>
         LET sid == procs[p].event.session_id
             key == ResolvedKey(procs[p].event)
         IN  /\ companyTable' = companyTable /\ linkedinTable' = linkedinTable
             /\ key \in DOMAIN companyTable'
             /\ procs'[p].pc = "return"
             /\ procs'[p].result.statusCode = 200
             /\ procs'[p].result.company_url = key
             /\ procs'[p].result.session_id = sid
             /\ procs'[p].loc.link = "raise" => personaTable' = personaTable
             /\ procs'[p].loc.link = "ok" =>
                  /\ DOMAIN personaTable' = DOMAIN personaTable \cup {sid}
                  /\ personaTable'[sid].company_url = key
                  /\ \A s \in DOMAIN personaTable \ {sid} :
                       personaTable'[s] = personaTable[s]
                  /\ sid \in DOMAIN personaTable =>
                       \A f \in DOMAIN personaTable[sid] \ {"company_url"} :
                         personaTable'[sid][f] = personaTable[sid][f]]_vars

\* C26 witness: the link of one invocation on the intake session s1 failed
\* and it returns 200 with its key, whose record is in the cache; the link of
\* another was applied and the record keeps its job_description
C26_Witness ==
  \E p, q \in Procs :
    /\ procs[p].handler = "company" /\ procs[q].handler = "company"
    /\ procs[p].event.session_id = "s1" /\ procs[q].event.session_id = "s1"
    /\ procs[p].loc.link = "raise"
    /\ procs[p].result.statusCode = 200
    /\ procs[p].result.company_url \in DOMAIN companyTable
    /\ procs[q].loc.link = "ok"
    /\ personaTable["s1"].company_url = procs[q].result.company_url
    /\ personaTable["s1"].job_description = IntakeItem.job_description

\* the keys under which the table differs between the two states
ChangedKeys(before, after) ==
  {k \in DOMAIN before \cup DOMAIN after :
     k \notin DOMAIN before \/ k \notin DOMAIN after \/ after[k] # before[k]}

\* C27: no step of a persona-generator or post-interview invocation changes
\* the company or the interviewer cache; no step of a research invocation
\* that hit the cache changes either; and a record is changed only by the put
\* of a research invocation of its own handler that missed the cache: no
\* record was stored under the key, or the invocation's lookup of the key
\* found none (it raised, or an overlapping invocation put the record since).
C27_RecordsChangeOnlyOnMiss ==
  [][\A p \in Procs :
       procs'[p] # procs[p] =>
         /\ procs'[p].handler \in {"persona", "insight"}
              => UNCHANGED <<companyTable, linkedinTable>>
         /\ procs'[p].path = "hit" => UNCHANGED <<companyTable, linkedinTable>>
         /\ \A k \in ChangedKeys(companyTable, companyTable') :
              /\ procs'[p].handler = "company" /\ procs'[p].calls.cache_put = 1
              /\ k = ResolvedKey(procs'[p].event)
              /\ k \notin DOMAIN companyTable \/ procs'[p].calls.cache_get = 1
         /\ \A k \in ChangedKeys(linkedinTable, linkedinTable') :
              /\ procs'[p].handler = "interviewer" /\ procs'[p].calls.cache_put = 1
              /\ k = procs'[p].loc.linkedin_id
              /\ k \notin DOMAIN linkedinTable \/ procs'[p].calls.cache_get = 1]_vars

\* the invocation missed the cache and its external fetch then succeeded
MissedAndFetched(p) ==
  /\ Ended(p)
  /\ IF procs[p].handler = "company"
     THEN /\ procs[p].path \notin {"config", "bad_request"}
          /\ procs[p].loc.cache_response.kind # "item"
          /\ ~FetchFailed(p)
     ELSE /\ procs[p].loc.cache_response.kind \in {"absent", "raise"}
          /\ procs[p].calls.profile_request >= 1
          /\ ~FetchFailed(p)

\* C28: a research invocation that missed the cache and whose external fetch
\* succeeded makes exactly one cache put, under the key it returns: the
\* company_url or the fallback key for company research, the LinkedIn handle
\* for interviewer research; when the put succeeds the cache holds a record
\* under the returned key, and no record of the LinkedIn cache is stored
\* under a raw profile URL.
C28_OnePutUnderReturnedKey ==
  /\ \A p \in Procs :
       (procs[p].handler \in Research /\ MissedAndFetched(p)) =>
         /\ procs[p].calls.cache_put = 1
         /\ SuccessResult(p)
         /\ procs[p].handler = "company" =>
              /\ procs[p].loc.final_key = procs[p].result.company_url
              /\ procs[p].loc.write = "ok" =>
                   procs[p].result.company_url \in DOMAIN companyTable
         /\ procs[p].handler = "interviewer" =>
              /\ procs[p].result.interviewer_linkedin_id
                   # procs[p].result.interviewer_linkedin_url
              /\ procs[p].loc.write = "ok" =>
                   procs[p].result.interviewer_linkedin_id \in DOMAIN linkedinTable
  /\ \A key \in DOMAIN linkedinTable :
       \A p \in Procs :
         procs[p].handler = "interviewer" => key # procs[p].loc.linkedin_url

\* C28 witness: interviewer research given another URL of the profile jd
\* stored one record under the handle; company research given only a name
\* stored one under the fallback key
C28_Witness ==
  \E p, q \in Procs :
    /\ procs[p].handler = "interviewer"
    /\ procs[p].event.interviewer_linkedin_url = LiUrlJdQuery
    /\ MissedAndFetched(p)
    /\ procs[p].loc.write = "ok"
    /\ procs[p].result.interviewer_linkedin_id = HandleJd
    /\ DOMAIN linkedinTable = {HandleJd}
    /\ procs[q].handler = "company"
    /\ procs[q].event = NameOnlyEvent
    /\ MissedAndFetched(q)
    /\ procs[q].calls.task_create = 1
    /\ procs[q].loc.write = "ok"
    /\ DOMAIN companyTable = {FallbackKey(NameAB)}

\* C29: whenever company research returns 200 with a key, or interviewer
\* research returns SUCCESS with a handle, the cache of that handler holds a
\* record under the returned key at that moment.
C29_SuccessImpliesRecord ==
  \A p \in Procs :
    /\ (/\ procs[p].handler = "company" /\ AtReturn(p)
        /\ procs[p].result.statusCode = 200
        /\ Truthy(procs[p].result.company_url))
       => procs[p].result.company_url \in DOMAIN companyTable
    /\ (/\ procs[p].handler = "interviewer" /\ AtReturn(p)
        /\ procs[p].result.status = "SUCCESS")
       => procs[p].result.interviewer_linkedin_id \in DOMAIN linkedinTable

\* C30: a persona-generator invocation for a session_id that intake never
\* created, whose session read does not fail, finds no record, returns 404
\* and not READY, whatever research invocations came before it (no
\* post-interview invocation having been made).
C30_UnknownSessionNotFound ==
  \A p \in Procs :
    (/\ procs[p].handler = "persona" /\ Ended(p)
     /\ \A q \in Procs : procs[q].handler # "insight"
     /\ procs[p].loc.inputs.session_id \notin IntakeSessions \cup {""}
     /\ procs[p].loc.session_res.kind # "raise")
    => /\ procs[p].result.statusCode = 404
       /\ procs[p].result.status # "READY"
       /\ procs[p].loc.session_res.kind = "absent"

====
